---- MODULE Spec2Model ----
(***************************************************************************)
(* Geometry layout codec and layout cache of webgpu-bundle-culling         *)
(* (src/js/geometry-layout.js).                                            *)
(*                                                                         *)
(* Values.  A JavaScript `undefined` is the string "undefined" where the   *)
(* other values are strings, and an absent record field where they are     *)
(* not.  An ArrayBuffer is a sequence of bytes (0..255).  A string of the  *)
(* hex form is a sequence of characters, each character being its hex      *)
(* digit value 0..15 when it is one of 0-9a-f and a number above 15        *)
(* otherwise.                                                              *)
(***************************************************************************)
EXTENDS Integers, Sequences, FiniteSets, TLC

VARIABLES
    nextId,     \* GeometryLayoutCache.#nextId
    keyMap,     \* GeometryLayoutCache.#keyMap : key string -> id
    cache,      \* GeometryLayoutCache.#cache  : id -> layout object (a heap reference)
    heap,       \* the layout objects that are reachable: reference -> object
    ret,        \* the last call on the cache: operation, arguments, outcome
    mark,       \* observer: an earlier createLayout call kept for comparison
    other,      \* a second GeometryLayoutCache instance (replay)
    script,     \* the calls made on the first instance, in order, with the ids returned
    replayed,   \* the ids the second instance returned for the calls replayed so far
    pc,         \* position of the codec pipeline
    layout,     \* codec pipeline: the layout being encoded
    bytes,      \* codec pipeline: serializeToBuffer(layout)
    decoded,    \* codec pipeline: deserializeFromBuffer(bytes)
    rebytes,    \* codec pipeline: serializeToBuffer(decoded)
    npc,        \* position of the normalizer run
    entries,    \* normalizer: the bufferLayouts argument
    normalized, \* normalizer: NormalizeBufferLayout(entries)
    shuffled,   \* normalizer: entries with two entries or two attributes swapped
    renormalized, \* normalizer: NormalizeBufferLayout(shuffled)
    bpc,        \* position of the geometry build
    descs,      \* geometry build: the descriptors given to the builders
    built,      \* geometry build: what buildGeometryBatch returned for descs
    alone       \* geometry build: what buildGeometry returned for each of descs

cacheVars == <<nextId, keyMap, cache, heap, ret, mark>>
replayVars == <<other, script, replayed>>
codecVars == <<pc, layout, bytes, decoded, rebytes>>
normVars == <<npc, entries, normalized, shuffled, renormalized>>
buildVars == <<bpc, descs, built, alone>>
vars == <<nextId, keyMap, cache, heap, ret, mark, other, script, replayed,
          pc, layout, bytes, decoded, rebytes,
          npc, entries, normalized, shuffled, renormalized,
          bpc, descs, built, alone>>

Undefined == "undefined"

----------------------------------------------------------------------------
(* Bounds of the model. *)

\* Longest buffer list of a codec input.
MaxBuffers == 1
\* Longest freely composed attribute list of a codec input.
MaxAttribs == 1

----------------------------------------------------------------------------
(* Bit operations of JavaScript on non-negative integers. *)

RECURSIVE BitAnd(_, _)
BitAnd(a, b) ==
    IF a = 0 \/ b = 0 THEN 0
    ELSE (a % 2) * (b % 2) + 2 * BitAnd(a \div 2, b \div 2)

RECURSIVE BitOr(_, _)
BitOr(a, b) ==
    IF a = 0 THEN b
    ELSE IF b = 0 THEN a
    ELSE (IF a % 2 = 1 \/ b % 2 = 1 THEN 1 ELSE 0) + 2 * BitOr(a \div 2, b \div 2)

\* DataView.setUint8 / setUint16 store the value modulo 2^8 / 2^16.
ToUint8(x) == x % 256
ToUint16(x) == x % 65536

Range(f) == {f[x] : x \in DOMAIN f}

----------------------------------------------------------------------------
(* The enums. *)

TopologyId ==
    ("point-list" :> 0) @@ ("line-list" :> 1) @@ ("line-strip" :> 2) @@
    ("triangle-strip" :> 3) @@ ("triangle-list" :> 4)

\* The reverse mapping of the enum object: TopologyId[n].
TopologyName(n) ==
    IF \E t \in DOMAIN TopologyId : TopologyId[t] = n
    THEN CHOOSE t \in DOMAIN TopologyId : TopologyId[t] = n
    ELSE Undefined

TopologyMask ==
    BitOr(TopologyId["point-list"],
    BitOr(TopologyId["line-list"],
    BitOr(TopologyId["line-strip"],
    BitOr(TopologyId["triangle-strip"], TopologyId["triangle-list"]))))

StripIndexFormatId == ("uint16" :> 0) @@ ("uint32" :> 8)

StripIndexFormatName(n) ==
    IF \E f \in DOMAIN StripIndexFormatId : StripIndexFormatId[f] = n
    THEN CHOOSE f \in DOMAIN StripIndexFormatId : StripIndexFormatId[f] = n
    ELSE Undefined

\* FormatId: the i-th name has id i - 1.
FormatNames ==
    << "uint8x2", "uint8x4", "sint8x2", "sint8x4", "unorm8x2", "unorm8x4",
       "snorm8x2", "snorm8x4", "uint16x2", "uint16x4", "sint16x2", "sint16x4",
       "unorm16x2", "unorm16x4", "snorm16x2", "snorm16x4", "float16x2",
       "float16x4", "float32", "float32x2", "float32x3", "float32x4",
       "uint32", "uint32x2", "uint32x3", "uint32x4", "sint32", "sint32x2",
       "sint32x3", "sint32x4" >>

FormatId(format) == (CHOOSE i \in DOMAIN FormatNames : FormatNames[i] = format) - 1

\* The reverse mapping FormatId[n].
FormatName(n) == IF n + 1 \in DOMAIN FormatNames THEN FormatNames[n + 1] ELSE Undefined

StepModeId == ("vertex" :> 0) @@ ("instance" :> 32768)

StepModeName(n) ==
    IF \E m \in DOMAIN StepModeId : StepModeId[m] = n
    THEN CHOOSE m \in DOMAIN StepModeId : StepModeId[m] = n
    ELSE Undefined

\* The masks of deserializeFromBuffer.
StripIndexFormatMask == 8
AttribCountMask == 15
ArrayStrideMask == 2303
StepModeMask == 32768
OffsetMask == 4095
ShaderLocationMask == 15

Uint8ToHex(b) == << b \div 16, b % 16 >>

\* HexToUint8[two characters]; a pair that is no key of the table gives
\* undefined, which a Uint8Array stores as 0.
HexToUint8(hi, lo) == IF hi < 16 /\ lo < 16 THEN 16 * hi + lo ELSE 0

----------------------------------------------------------------------------
(* GeometryLayout *)

IsStrip(topology) == topology = "triangle-strip" \/ topology = "line-strip"

\* Mutant: the index format is kept for every topology.
GeometryLayoutAnyTopology(buffers, topology, indexFormat) ==
    [ buffers |-> buffers, topology |-> topology, stripIndexFormat |-> indexFormat ]

\* new GeometryLayout(buffers, topology, indexFormat)
GeometryLayout(buffers, topology, indexFormat) ==
    [ buffers |-> buffers,
      topology |-> topology,
      stripIndexFormat |-> IF IsStrip(topology) THEN indexFormat ELSE Undefined ]

\* The three bytes of one attribute.  A format outside the enum has the id
\* undefined, which setUint8 stores as 0.
SerializeAttrib(attrib) ==
    LET attribData16 == ToUint16(attrib.offset + attrib.shaderLocation * 4096)
        format8 == IF attrib.format \in Range(FormatNames)
                   THEN ToUint8(FormatId(attrib.format)) ELSE 0
    IN  << attribData16 % 256, attribData16 \div 256, format8 >>

\* for (const attrib of buffer.attributes)
RECURSIVE SerializeAttribs(_)
SerializeAttribs(attributes) ==
    IF attributes = <<>> THEN <<>>
    ELSE SerializeAttrib(Head(attributes)) \o SerializeAttribs(Tail(attributes))

\* Mutant: the step mode is left out of the two bytes of a buffer.
SerializeBufferNoStepMode(buffer) ==
    LET bufferData16 == ToUint16(Len(buffer.attributes) + buffer.arrayStride * 16)
    IN  << bufferData16 % 256, bufferData16 \div 256 >>
        \o SerializeAttribs(buffer.attributes)

\* The two bytes of one buffer, then its attributes.
SerializeBuffer(buffer) ==
    LET stepMode == IF buffer.stepMode = Undefined THEN "vertex" ELSE buffer.stepMode
        bufferData16 == ToUint16(Len(buffer.attributes) + buffer.arrayStride * 16
                                 + StepModeId[stepMode])
    IN  << bufferData16 % 256, bufferData16 \div 256 >>
        \o SerializeAttribs(buffer.attributes)

\* for (const buffer of this.buffers)
RECURSIVE SerializeBuffers(_)
SerializeBuffers(buffers) ==
    IF buffers = <<>> THEN <<>>
    ELSE SerializeBuffer(Head(buffers)) \o SerializeBuffers(Tail(buffers))

\* The encoding computed from the fields (lines 134-162).
EncodeLayout(l) ==
    LET topologyData8 ==
            IF l.topology \notin DOMAIN TopologyId
            THEN 0  \* setUint8 of undefined stores 0
            ELSE TopologyId[l.topology]
                 + (IF l.stripIndexFormat # Undefined
                    THEN StripIndexFormatId[l.stripIndexFormat] ELSE 0)
    IN  << ToUint8(topologyData8) >> \o SerializeBuffers(l.buffers)

\* serializeToBuffer(): the memoized buffer when there is one.
serializeToBuffer(l) ==
    IF "serializedBuffer" \in DOMAIN l THEN l.serializedBuffer ELSE EncodeLayout(l)

\* The hex form of a byte array: two characters per byte.
RECURSIVE BytesToHex(_)
BytesToHex(array) ==
    IF array = <<>> THEN <<>> ELSE Uint8ToHex(Head(array)) \o BytesToHex(Tail(array))

\* serializeToString(): the memoized string when there is one.
serializeToString(l) ==
    IF "serializedString" \in DOMAIN l THEN l.serializedString
    ELSE BytesToHex(serializeToBuffer(l))

\* The layout after serializeToString() has run on it: both memos are set.
Memoized(l) ==
    [ buffers |-> l.buffers, topology |-> l.topology,
      stripIndexFormat |-> l.stripIndexFormat,
      serializedBuffer |-> serializeToBuffer(l),
      serializedString |-> serializeToString(l) ]

\* A RangeError of DataView.getUint8 / getUint16.
Throw == [ throws |-> TRUE ]

\* The attribute loop of deserializeFromBuffer, from byte offset `offset`.
RECURSIVE ReadAttribs(_, _, _)
ReadAttribs(data, offset, n) ==
    IF n = 0 THEN [ throws |-> FALSE, attributes |-> <<>>, offset |-> offset ]
    ELSE IF offset + 3 > Len(data) THEN Throw
    ELSE LET attribData16 == data[offset + 1] + 256 * data[offset + 2]
             attrib == [ offset |-> BitAnd(attribData16, OffsetMask),
                         shaderLocation |-> BitAnd(attribData16 \div 4096, ShaderLocationMask),
                         format |-> FormatName(data[offset + 3]) ]
             rest == ReadAttribs(data, offset + 3, n - 1)
         IN  IF rest.throws THEN Throw
             ELSE [ throws |-> FALSE, attributes |-> <<attrib>> \o rest.attributes,
                    offset |-> rest.offset ]

\* The buffer loop of deserializeFromBuffer: while (offset < byteLength).
RECURSIVE ReadBuffers(_, _)
ReadBuffers(data, offset) ==
    IF ~(offset < Len(data)) THEN [ throws |-> FALSE, buffers |-> <<>> ]
    ELSE IF offset + 2 > Len(data) THEN Throw
    ELSE LET bufferData16 == data[offset + 1] + 256 * data[offset + 2]
             attribCount == BitAnd(bufferData16, AttribCountMask)
             attribs == ReadAttribs(data, offset + 2, attribCount)
         IN  IF attribs.throws THEN Throw
             ELSE LET buffer == [ attributes |-> attribs.attributes,
                                  arrayStride |-> BitAnd(bufferData16 \div 16, ArrayStrideMask),
                                  stepMode |-> StepModeName(BitAnd(bufferData16, StepModeMask)) ]
                      rest == ReadBuffers(data, attribs.offset)
                  IN  IF rest.throws THEN Throw
                      ELSE [ throws |-> FALSE, buffers |-> <<buffer>> \o rest.buffers ]

\* GeometryLayout.deserializeFromBuffer(inBuffer)
deserializeFromBuffer(data) ==
    IF Len(data) = 0 THEN Throw
    ELSE LET topologyData8 == data[1]
             topology == TopologyName(BitAnd(topologyData8, TopologyMask))
             stripIndexFormat ==
                 IF IsStrip(topology)
                 THEN StripIndexFormatName(BitAnd(topologyData8, StripIndexFormatMask))
                 ELSE "uint32"
             read == ReadBuffers(data, 1)
         IN  IF read.throws THEN Throw
             ELSE [ throws |-> FALSE,
                    layout |-> GeometryLayout(read.buffers, topology, stripIndexFormat) ]

\* The Uint8Array filled by deserializeFromString: value.length / 2 bytes
\* (the length is truncated to an integer).
RECURSIVE HexToBytes(_)
HexToBytes(value) ==
    IF Len(value) < 2 THEN <<>>
    ELSE << HexToUint8(value[1], value[2]) >> \o HexToBytes(Tail(Tail(value)))

\* GeometryLayout.deserializeFromString(value)
deserializeFromString(value) ==
    LET array == HexToBytes(value)
        got == deserializeFromBuffer(array)
    IN  IF got.throws THEN Throw
        ELSE [ throws |-> FALSE,
               layout |-> [ buffers |-> got.layout.buffers,
                            topology |-> got.layout.topology,
                            stripIndexFormat |-> got.layout.stripIndexFormat,
                            serializedBuffer |-> array,
                            serializedString |-> value ] ]

\* What a layout describes: its public fields without the id.
Structure(l) ==
    [ topology |-> l.topology, stripIndexFormat |-> l.stripIndexFormat,
      buffers |-> l.buffers ]

----------------------------------------------------------------------------
(* GeometryLayoutCache.  An instance is the record of its three private    *)
(* fields; the layout objects live in the heap, a sequence indexed by      *)
(* reference, which every instance shares.                                 *)

\* A GeometryLayoutCache after construction (the field initializers).
FreshCache == [ nextId |-> 1, keyMap |-> <<>>, cache |-> <<>> ]

\* getLayout(id): the reference stored under id, or undefined.
getLayout(c, id) ==
    IF id \in DOMAIN c.cache
    THEN [ outcome |-> "layout", ref |-> c.cache[id] ]
    ELSE [ outcome |-> Undefined, ref |-> 0 ]

\* Mutant: the counter is incremented before it is read (++nextId).
addLayoutToCachePreIncrement(c, h, l, key) ==
    LET id == c.nextId + 1
        ref == Len(h) + 1
    IN  [ c |-> [ nextId |-> id,
                  keyMap |-> (key :> id) @@ c.keyMap,
                  cache |-> (id :> ref) @@ c.cache ],
          h |-> Append(h, l @@ [ id |-> id, frozen |-> TRUE ]),
          outcome |-> "layout", ref |-> ref, key |-> key ]

\* Mutant: the ids come from one counter that all instances share.
addLayoutToCacheSharedCounter(c, h, l, key) ==
    LET id == Len(h) + 1
        ref == Len(h) + 1
    IN  [ c |-> [ nextId |-> c.nextId + 1,
                  keyMap |-> (key :> id) @@ c.keyMap,
                  cache |-> (id :> ref) @@ c.cache ],
          h |-> Append(h, l @@ [ id |-> id, frozen |-> TRUE ]),
          outcome |-> "layout", ref |-> ref, key |-> key ]

\* addLayoutToCache(layout, key): the id is assigned, the object frozen
\* (Object.freeze: the object's own properties only) and both maps are set.
addLayoutToCache(c, h, l, key) ==
    LET id == c.nextId
        object == l @@ [ id |-> id, frozen |-> TRUE ]
        ref == Len(h) + 1
    IN  [ c |-> [ nextId |-> id + 1,
                  keyMap |-> (key :> id) @@ c.keyMap,
                  cache |-> (id :> ref) @@ c.cache ],
          h |-> Append(h, object),
          outcome |-> "layout", ref |-> ref, key |-> key ]

\* Mutant: the key is not looked up; every call decodes and registers.
deserializeLayoutNoLookup(c, h, key) ==
    LET got == deserializeFromString(key)
    IN  IF got.throws
        THEN [ c |-> c, h |-> h, outcome |-> "throws", ref |-> 0, key |-> key ]
        ELSE addLayoutToCache(c, h, got.layout, key)

\* Mutant: the id is taken before the key is decoded.
deserializeLayoutEager(c, h, key) ==
    IF key \in DOMAIN c.keyMap
    THEN [ c |-> c, h |-> h, outcome |-> "layout",
           ref |-> c.cache[c.keyMap[key]], key |-> key ]
    ELSE LET got == deserializeFromString(key)
         IN  IF got.throws
             THEN [ c |-> [ c EXCEPT !.nextId = c.nextId + 1 ], h |-> h,
                    outcome |-> "throws", ref |-> 0, key |-> key ]
             ELSE addLayoutToCache(c, h, got.layout, key)

\* deserializeLayout(key)
deserializeLayout(c, h, key) ==
    IF key \in DOMAIN c.keyMap
    THEN [ c |-> c, h |-> h, outcome |-> "layout",
           ref |-> c.cache[c.keyMap[key]], key |-> key ]
    ELSE LET got == deserializeFromString(key)
         IN  IF got.throws
             THEN [ c |-> c, h |-> h, outcome |-> "throws", ref |-> 0, key |-> key ]
             ELSE addLayoutToCache(c, h, got.layout, key)

\* The copy createLayout makes of one caller buffer: arrayStride and the
\* attributes, each attribute as shaderLocation, format and offset.  The copy
\* has no stepMode property, which reads as undefined.
CopyBuffer(buffer) ==
    [ arrayStride |-> buffer.arrayStride,
      stepMode |-> Undefined,
      attributes |-> [ i \in DOMAIN buffer.attributes |->
                         [ shaderLocation |-> buffer.attributes[i].shaderLocation,
                           format |-> buffer.attributes[i].format,
                           offset |-> buffer.attributes[i].offset ] ] ]

\* Mutant: the key is not looked up; every call registers its layout.
createLayoutNoLookup(c, h, attribBuffers, topology, indexFormat) ==
    IF \E i \in DOMAIN attribBuffers : "attributes" \notin DOMAIN attribBuffers[i]
    THEN [ c |-> c, h |-> h, outcome |-> "throws", ref |-> 0, key |-> <<>> ]
    ELSE LET buffers == [ i \in DOMAIN attribBuffers |-> CopyBuffer(attribBuffers[i]) ]
             l == Memoized(GeometryLayout(buffers, topology, indexFormat))
         IN  addLayoutToCache(c, h, l, serializeToString(l))

\* createLayout(attribBuffers, topology, indexFormat).  Iterating the
\* attributes of a buffer that has none is a TypeError.
createLayout(c, h, attribBuffers, topology, indexFormat) ==
    IF \E i \in DOMAIN attribBuffers : "attributes" \notin DOMAIN attribBuffers[i]
    THEN [ c |-> c, h |-> h, outcome |-> "throws", ref |-> 0, key |-> <<>> ]
    ELSE LET buffers == [ i \in DOMAIN attribBuffers |-> CopyBuffer(attribBuffers[i]) ]
             l == Memoized(GeometryLayout(buffers, topology, indexFormat))
             key == serializeToString(l)
         IN  IF key \in DOMAIN c.keyMap
             THEN [ c |-> c, h |-> h, outcome |-> "layout",
                    ref |-> c.cache[c.keyMap[key]], key |-> key ]
             ELSE addLayoutToCache(c, h, l, key)

\* A write a caller attempts through a layout reference.  The layout is
\* frozen, so a write to one of its own properties is rejected; the buffers
\* array and what it holds are ordinary objects and take the write.
WriteThrough(object, path, value) ==
    IF path.field \in {"id", "topology", "stripIndexFormat", "buffers"}
    THEN IF object.frozen THEN object
         ELSE [ object EXCEPT ![path.field] = value ]
    ELSE IF path.field = "arrayStride"
    THEN [ object EXCEPT !.buffers[path.buffer].arrayStride = value ]
    ELSE [ object EXCEPT !.buffers[path.buffer].attributes[path.attribute].offset = value ]

----------------------------------------------------------------------------
(* Sample inputs. *)

\* Most layouts a run registers in one cache.
MaxId == 3
\* Most calls of a replayed script.
MaxCalls == 3

Attrib(shaderLocation, offset, format) ==
    [ shaderLocation |-> shaderLocation, offset |-> offset, format |-> format ]

Buffer(arrayStride, stepMode, attributes) ==
    [ arrayStride |-> arrayStride, stepMode |-> stepMode, attributes |-> attributes ]

Position == Attrib(0, 0, "float32x3")
Normal == Attrib(1, 12, "float32x3")
Texcoord == Attrib(3, 24, "float32x2")

IndexFormats == {"uint16", "uint32"}

\* Caller buffer lists of createLayout: an interleaved buffer with the step
\* mode absent or "instance", and a buffer without attributes.
CreateBufferLists ==
    { << [ arrayStride |-> 32, attributes |-> <<Position, Normal>> ] >>,
      << Buffer(32, "instance", <<Position, Normal>>) >>,
      << [ arrayStride |-> 32 ] >> }

CreateInputs ==
    { [ buffers |-> b, topology |-> t[1], indexFormat |-> t[2] ] :
        b \in CreateBufferLists,
        t \in { <<"triangle-list", "uint32">>, <<"triangle-strip", "uint16">> } }

\* Keys a peer sends: the encoding of a layout createLayout registers too,
\* the encoding of a layout with an instance buffer, an encoding cut short,
\* the empty string, and two characters that are no hex digits.
DeserializeKeys ==
    { serializeToString(GeometryLayout(
          << Buffer(32, Undefined, <<Position, Normal>>) >>, "triangle-list", "uint32")),
      serializeToString(GeometryLayout(
          << Buffer(32, "instance", <<Position, Normal>>) >>, "triangle-list", "uint32")),
      SubSeq(serializeToString(GeometryLayout(
          << Buffer(32, "vertex", <<Position, Normal>>) >>, "triangle-list", "uint32")), 1, 8),
      << >>,
      << 16, 16 >> }

\* What a caller writes through a reference: one of the layout's own
\* properties, a buffer's stride, an attribute's offset.
WritePaths(object) ==
    { [ field |-> f ] : f \in {"id", "topology"} }
    \cup { [ field |-> "arrayStride", buffer |-> b ] : b \in DOMAIN object.buffers }
    \cup { [ field |-> "offset", buffer |-> b, attribute |-> 1 ] :
             b \in { i \in DOMAIN object.buffers : object.buffers[i].attributes # <<>> } }

WriteValue(path) == IF path.field = "topology" THEN "point-list" ELSE 64

----------------------------------------------------------------------------
(* The calls on the first cache instance. *)

Cache == [ nextId |-> nextId, keyMap |-> keyMap, cache |-> cache ]

\* The state after a call that returned r, and the record of the call.
Returned(op, arg, r) ==
    /\ r.c.nextId > nextId => nextId <= MaxId
    /\ nextId' = r.c.nextId
    /\ keyMap' = r.c.keyMap
    /\ cache' = r.c.cache
    /\ heap' = r.h
    /\ ret' = [ op |-> op, arg |-> arg, outcome |-> r.outcome, key |-> r.key,
                ref |-> r.ref,
                id |-> IF r.outcome = "layout" THEN r.h[r.ref].id ELSE 0,
                structure |-> IF r.outcome = "layout" THEN Structure(r.h[r.ref])
                              ELSE Undefined,
                registered |-> r.c.nextId > nextId,
                again |-> \E m \in mark : m.op = op /\ m.arg = arg ]

DoCreateLayout ==
    \E in \in CreateInputs :
        \E r \in { createLayout(Cache, heap, in.buffers, in.topology, in.indexFormat) } :
            Returned("createLayout", in, r)

DoDeserializeLayout ==
    \E key \in DeserializeKeys :
        \E r \in { deserializeLayout(Cache, heap, key) } :
            Returned("deserializeLayout", key, r)

DoGetLayout ==
    \E id \in 0 .. MaxId + 1 :
        LET r == getLayout(Cache, id)
        IN  Returned("getLayout", id,
                     [ c |-> Cache, h |-> heap, outcome |-> r.outcome, ref |-> r.ref,
                       key |-> <<>> ])

CallCreateLayout == DoCreateLayout /\ UNCHANGED <<mark, replayVars, codecVars, normVars, buildVars>>

CallDeserializeLayout == DoDeserializeLayout /\ UNCHANGED <<mark, replayVars, codecVars, normVars, buildVars>>

CallGetLayout == DoGetLayout /\ UNCHANGED <<mark, replayVars, codecVars, normVars, buildVars>>

\* Observer: the call that has just returned a layout is kept for comparison
\* with the calls that follow.
Mark ==
    /\ mark = {}
    /\ ret.op = "createLayout" /\ ret.outcome = "layout"
    /\ mark' = { ret }
    /\ UNCHANGED <<nextId, keyMap, cache, heap, ret, replayVars, codecVars, normVars, buildVars>>

NoCall == [ op |-> "none", arg |-> 0, outcome |-> Undefined, key |-> <<>>, ref |-> 0,
            id |-> 0, structure |-> Undefined, registered |-> FALSE, again |-> FALSE ]

CacheInit ==
    /\ nextId = FreshCache.nextId
    /\ keyMap = FreshCache.keyMap
    /\ cache = FreshCache.cache
    /\ heap = <<>>
    /\ ret = NoCall
    /\ mark = {}

ReplayIdle == other = FreshCache /\ script = <<>> /\ replayed = <<>>

CodecIdle ==
    /\ pc = "idle" /\ layout = Undefined
    /\ bytes = [ throws |-> FALSE, buffer |-> <<>> ]
    /\ decoded = Throw /\ rebytes = <<>>

NormalizeIdle ==
    /\ npc = "idle" /\ entries = <<>>
    /\ normalized = Throw /\ shuffled = <<>> /\ renormalized = Throw

BuildIdle == bpc = "idle" /\ descs = <<>> /\ built = Throw /\ alone = <<>>

Init == CacheInit /\ ReplayIdle /\ CodecIdle /\ NormalizeIdle /\ BuildIdle

Next == CallCreateLayout \/ CallDeserializeLayout \/ CallGetLayout \/ Mark

Spec == Init /\ [][Next]_vars

----------------------------------------------------------------------------
(* A caller that writes through the layout references it was given. *)

CallerWrite ==
    /\ \E ref \in DOMAIN heap :
         \E path \in WritePaths(heap[ref]) :
            heap' = [ heap EXCEPT ![ref] = WriteThrough(heap[ref], path, WriteValue(path)) ]
    /\ UNCHANGED <<nextId, keyMap, cache, ret, mark, replayVars, codecVars, normVars, buildVars>>

NextWrite == CallCreateLayout \/ CallDeserializeLayout \/ CallGetLayout \/ CallerWrite

SpecWrite == Init /\ [][NextWrite]_vars

----------------------------------------------------------------------------
(* Replay: the calls made on the first instance are made again, in the     *)
(* same order, on a second, fresh instance, once the first has made them.  *)

Scripted ==
    /\ Len(script) < MaxCalls
    /\ replayed = <<>>
    /\ script' = Append(script, [ op |-> ret'.op, arg |-> ret'.arg,
                                  outcome |-> ret'.outcome, id |-> ret'.id ])
    /\ UNCHANGED <<mark, other, replayed, codecVars, normVars, buildVars>>

ScriptCreateLayout == DoCreateLayout /\ Scripted

ScriptDeserializeLayout == DoDeserializeLayout /\ Scripted

Replay ==
    /\ Len(replayed) < Len(script)
    /\ \E call \in { script[Len(replayed) + 1] } :
         \E r \in { IF call.op = "createLayout"
                    THEN createLayout(other, heap, call.arg.buffers, call.arg.topology,
                                      call.arg.indexFormat)
                    ELSE deserializeLayout(other, heap, call.arg) } :
            /\ other' = r.c
            /\ heap' = r.h
            /\ replayed' = Append(replayed,
                   [ outcome |-> r.outcome,
                     id |-> IF r.outcome = "layout" THEN r.h[r.ref].id ELSE 0 ])
    /\ UNCHANGED <<nextId, keyMap, cache, ret, mark, script, codecVars, normVars, buildVars>>

NextReplay == ScriptCreateLayout \/ ScriptDeserializeLayout \/ Replay

SpecReplay == Init /\ [][NextReplay]_vars

----------------------------------------------------------------------------
(* The codec on its own: a layout is encoded, the bytes are decoded, and   *)
(* the decoded layout is encoded again.                                    *)

RECURSIVE SeqsUpTo(_, _)
SeqsUpTo(S, n) ==
    IF n = 0 THEN { <<>> }
    ELSE LET shorter == SeqsUpTo(S, n - 1)
         IN  shorter \cup { Append(s, x) : s \in shorter, x \in S }

\* Attributes at the ends of the offset and location ranges, and one past them.
AttribSamples ==
    { Attrib(0, 0, "float32x3"), Attrib(15, 4095, "sint32x4"), Attrib(16, 4096, "uint8x2") }

\* n attributes at locations 0, 1, ... and offsets 0, 4, ...
Attribs(n) == [ i \in 1 .. n |-> Attrib(i - 1, 4 * (i - 1), "float32") ]

AttribLists == SeqsUpTo(AttribSamples, MaxAttribs) \cup { Attribs(15), Attribs(16) }

BufferSamples ==
    { Buffer(s, m, a) : s \in {32, 2047, 2048}, m \in {"vertex", "instance", Undefined},
                        a \in AttribLists }

CodecInputs ==
    { GeometryLayout(b, t, f) :
        b \in SeqsUpTo(BufferSamples, MaxBuffers), t \in DOMAIN TopologyId, f \in IndexFormats }

\* Every field of the layout fits the bits the encoding gives it.
InBudget(l) ==
    \A i \in DOMAIN l.buffers :
        /\ Len(l.buffers[i].attributes) <= 15
        /\ l.buffers[i].arrayStride <= 2047
        /\ \A j \in DOMAIN l.buffers[i].attributes :
              /\ l.buffers[i].attributes[j].offset <= 4095
              /\ l.buffers[i].attributes[j].shaderLocation <= 15

\* A valid GeometryLayout: in budget, and every buffer has a step mode.
Valid(l) ==
    /\ InBudget(l)
    /\ \A i \in DOMAIN l.buffers : l.buffers[i].stepMode \in DOMAIN StepModeId

CodecInit ==
    /\ pc = "start"
    /\ layout \in CodecInputs
    /\ bytes = [ throws |-> FALSE, buffer |-> <<>> ]
    /\ decoded = Throw
    /\ rebytes = <<>>

Serialize ==
    /\ pc = "start"
    /\ bytes' = [ throws |-> FALSE, buffer |-> serializeToBuffer(layout) ]
    /\ pc' = "serialized"
    /\ UNCHANGED <<layout, decoded, rebytes, cacheVars, replayVars, normVars, buildVars>>

Deserialize ==
    /\ pc = "serialized"
    /\ decoded' = deserializeFromBuffer(bytes.buffer)
    /\ pc' = "deserialized"
    /\ UNCHANGED <<layout, bytes, rebytes, cacheVars, replayVars, normVars, buildVars>>

Reserialize ==
    /\ pc = "deserialized"
    /\ ~decoded.throws
    /\ rebytes' = serializeToBuffer(decoded.layout)
    /\ pc' = "reserialized"
    /\ UNCHANGED <<layout, bytes, decoded, cacheVars, replayVars, normVars, buildVars>>

NextCodec == Serialize \/ Deserialize \/ Reserialize

InitCodec == CacheInit /\ ReplayIdle /\ CodecInit /\ NormalizeIdle /\ BuildIdle

SpecCodec == InitCodec /\ [][NextCodec]_vars

----------------------------------------------------------------------------
(* Claims about the layout cache. *)

\* What a createLayout input describes: the topology, the index format when
\* the topology is a strip, and buffer by buffer the stride, the step mode and
\* the attributes.
InputStructure(in) ==
    [ topology |-> in.topology,
      stripIndexFormat |-> IF IsStrip(in.topology) THEN in.indexFormat ELSE Undefined,
      buffers |-> [ i \in DOMAIN in.buffers |->
                      [ arrayStride |-> in.buffers[i].arrayStride,
                        stepMode |-> IF "stepMode" \in DOMAIN in.buffers[i]
                                     THEN in.buffers[i].stepMode ELSE Undefined,
                        attributes |-> in.buffers[i].attributes ] ] ]

IsCreated == ret.op = "createLayout" /\ ret.outcome = "layout"

\* C1 (dedup invariant): a createLayout call whose input equals the input of
\* an earlier createLayout call, whatever calls were made in between, returns
\* the layout object the earlier call returned, with the same id.
C1_Dedup ==
    \A m \in mark :
        IsCreated /\ ret.arg = m.arg => ret.ref = m.ref /\ ret.id = m.id

\* C1 witness: an input is given a second time after another layout was
\* registered, and the call returns a layout.
C1_Witness == IsCreated /\ ret.again /\ nextId > 2 /\ ~ret.registered

\* C2 (monotonic ids): the k-th layout registered has id k, so after N
\* registrations of distinct keys the ids in both maps are exactly 1..N and the
\* next id is N + 1.
C2_MonotonicIds ==
    LET N == Cardinality(DOMAIN keyMap)
    IN  /\ Range(keyMap) = 1 .. N
        /\ DOMAIN cache = 1 .. N
        /\ nextId = N + 1
        /\ \A ref \in DOMAIN heap : heap[ref].id = ref
        /\ \A id \in DOMAIN cache : heap[cache[id]].id = id

\* C2 witness: three layouts are registered and the last call was a hit on
\* the first of them.
C2_Witness ==
    /\ Cardinality(DOMAIN keyMap) >= 3
    /\ ret.outcome = "layout" /\ ~ret.registered /\ ret.id = 1

\* The step is a call that found its key registered, or a getLayout call.
IsHitStep ==
    \/ /\ ret'.op \in {"createLayout", "deserializeLayout"}
       /\ ret'.outcome = "layout"
       /\ ret'.key \in DOMAIN keyMap
    \/ ret'.op = "getLayout"

\* C5 (hits change nothing, ids are never reused): a createLayout or
\* deserializeLayout call whose key is registered, and every getLayout call,
\* leaves the counter and both maps unchanged; an id that is bound to a layout
\* object stays bound to that object in every step.
C5_HitsChangeNothing ==
    [][ /\ IsHitStep => UNCHANGED <<nextId, keyMap, cache>>
        /\ \A id \in DOMAIN cache : id \in DOMAIN cache' /\ cache'[id] = cache[id]
        /\ \A key \in DOMAIN keyMap : key \in DOMAIN keyMap' /\ keyMap'[key] = keyMap[key]
      ]_vars

\* C5 witness: deserializeLayout found its key registered under an id that is
\* not the latest one.
C5_Witness ==
    /\ ret.op = "deserializeLayout" /\ ret.outcome = "layout"
    /\ ~ret.registered /\ ret.id + 1 < nextId

\* C9 (atomic failure): a createLayout or deserializeLayout call that throws
\* leaves the counter and both maps as they were.
C9_AtomicFailure ==
    [][ ret'.outcome = "throws" => UNCHANGED <<nextId, keyMap, cache, heap>> ]_vars

\* C9 witness: deserializeLayout threw on a cache that holds layouts.
C9_Witness == ret.op = "deserializeLayout" /\ ret.outcome = "throws" /\ nextId > 1

\* C10 (createLayout fidelity), as claimed: the layout a createLayout call
\* registers describes the input, step modes included, and inputs that
\* describe different layouts get different ids.
C10_Fidelity ==
    /\ IsCreated /\ ret.registered => ret.structure = InputStructure(ret.arg)
    /\ \A m \in mark :
          IsCreated /\ InputStructure(ret.arg) # InputStructure(m.arg) => ret.id # m.id

\* C7 (immutability after registration), as claimed: no step changes the id,
\* the topology, the strip index format or the buffers of a registered layout.
C7_Immutable ==
    [][ \A ref \in DOMAIN heap :
          /\ heap'[ref].id = heap[ref].id
          /\ Structure(heap'[ref]) = Structure(heap[ref]) ]_vars

\* C6 (replay determinism): the second instance returns, call by call, the
\* outcome and the id the first instance returned.
C6_ReplayDeterminism ==
    \A i \in DOMAIN replayed :
        replayed[i].outcome = script[i].outcome /\ replayed[i].id = script[i].id

\* C6 witness: a script of a registration, a hit and a second registration
\* has been replayed in full.
C6_Witness ==
    /\ Len(replayed) >= 3
    /\ replayed[1].id = 1 /\ replayed[2].id = 1 /\ replayed[3].id = 2

----------------------------------------------------------------------------
(* Claims about the codec. *)

\* C3 (structural round trip), as claimed: decoding the encoding of a valid
\* layout gives its topology, strip index format and buffers back.
C3_RoundTrip ==
    pc \in {"deserialized", "reserialized"} /\ Valid(layout) =>
        ~decoded.throws /\ Structure(decoded.layout) = Structure(layout)

\* C4 (canonical re-encode), as claimed: encoding the decoded layout of a valid
\* layout gives the bytes that were decoded.
C4_Reencode ==
    pc = "reserialized" /\ Valid(layout) => rebytes = bytes.buffer

\* C8 (encoding fails past the bit budget), as claimed: encoding a layout with
\* a field past its budget reports an error.
C8_OverflowFails ==
    pc # "start" /\ ~InBudget(layout) => bytes.throws

----------------------------------------------------------------------------
(* Claims about content addressing. *)

\* The canonical encoding recomputed from a stored layout's topology, strip
\* index format and buffers, not read from its memo.
CanonicalKey(l) == BytesToHex(EncodeLayout(Structure(l)))

\* The layouts whose encodings are the well-formed keys of DeserializeKeys.
KeyLayouts ==
    { GeometryLayout(<< Buffer(32, "vertex", <<Position, Normal>>) >>,
                     "triangle-list", "uint32"),
      GeometryLayout(<< Buffer(32, "instance", <<Position, Normal>>) >>,
                     "triangle-list", "uint32") }

\* The layouts createLayout builds from the well-formed inputs of CreateInputs.
CreatedLayouts ==
    { GeometryLayout([ i \in DOMAIN in.buffers |-> CopyBuffer(in.buffers[i]) ],
                     in.topology, in.indexFormat) :
        in \in { x \in CreateInputs :
                   \A i \in DOMAIN x.buffers : "attributes" \in DOMAIN x.buffers[i] } }

\* Every registered key is the encoding of a valid layout: no key was
\* registered by a deserializeLayout call on a malformed string.
OnlyEncodedKeys ==
    \A key \in DOMAIN keyMap :
        \E L \in KeyLayouts \cup CreatedLayouts : key = CanonicalKey(L)

\* A structure with an absent step mode read as its default, "vertex".
WithDefaultStepMode(s) ==
    [ s EXCEPT !.buffers =
        [ i \in DOMAIN s.buffers |->
            [ s.buffers[i] EXCEPT !.stepMode =
                IF @ = Undefined THEN "vertex" ELSE @ ] ] ]

\* C11 (content addressing of deserialized entries), as claimed: when every
\* registered key is the encoding of a valid layout, every registered key is
\* the canonical encoding of the layout stored under it, a deserializeLayout
\* call on the encoding of a layout returns a layout that is structurally equal
\* to it, and no two cache entries hold structurally equal layouts.
C11_ContentAddressed ==
    OnlyEncodedKeys =>
        /\ \A key \in DOMAIN keyMap : key = CanonicalKey(heap[cache[keyMap[key]]])
        /\ \A L \in KeyLayouts :
              ret.op = "deserializeLayout" /\ ret.arg = CanonicalKey(L) =>
                  /\ ret.outcome = "layout"
                  /\ WithDefaultStepMode(ret.structure)
                         = WithDefaultStepMode(Structure(L))
        /\ \A i, j \in DOMAIN cache :
              Structure(heap[cache[i]]) = Structure(heap[cache[j]]) => i = j

\* C11 for caches in which no stored layout has a stride of 256 or more: there
\* every registered key is the canonical encoding of its layout.
C11_SmallStridesCanonical ==
    OnlyEncodedKeys =>
        \A key \in DOMAIN keyMap :
            LET l == heap[cache[keyMap[key]]]
            IN  (\A i \in DOMAIN l.buffers : l.buffers[i].arrayStride < 256)
                    => key = CanonicalKey(l)

----------------------------------------------------------------------------
(* Claims about the keys. *)

\* The attributes a key holds from the byte offset `offset` on, n of them:
\* offset in the low 12 bits, shader location in the high 4, then the format.
RECURSIVE KeyAttribs(_, _, _)
KeyAttribs(data, offset, n) ==
    IF n = 0 \/ offset + 3 > Len(data) THEN <<>>
    ELSE LET attribData16 == data[offset + 1] + 256 * data[offset + 2]
         IN  << [ offset |-> attribData16 % 4096,
                  shaderLocation |-> attribData16 \div 4096,
                  format |-> FormatName(data[offset + 3]) ] >>
             \o KeyAttribs(data, offset + 3, n - 1)

\* The buffers a key holds from the byte offset `offset` on: the attribute
\* count in the low 4 bits, the stride in the next 11, the step mode on top.
RECURSIVE KeyBuffers(_, _)
KeyBuffers(data, offset) ==
    IF offset + 2 > Len(data) THEN <<>>
    ELSE LET bufferData16 == data[offset + 1] + 256 * data[offset + 2]
             attribCount == bufferData16 % 16
         IN  << [ arrayStride |-> (bufferData16 \div 16) % 2048,
                  stepMode |-> IF bufferData16 \div 32768 = 1 THEN "instance" ELSE "vertex",
                  attributes |-> KeyAttribs(data, offset + 2, attribCount) ] >>
             \o KeyBuffers(data, offset + 2 + 3 * attribCount)

\* What the bytes of a key tell about the layout they encode.  It is computed
\* from the bytes alone: two layouts with the same key have the same
\* KeyStructure.
KeyStructure(data) ==
    LET topology == TopologyName(data[1] % 8)
    IN  [ topology |-> topology,
          stripIndexFormat |-> IF ~IsStrip(topology) THEN Undefined
                               ELSE IF (data[1] \div 8) % 2 = 1 THEN "uint32"
                               ELSE "uint16",
          buffers |-> KeyBuffers(data, 1) ]

----------------------------------------------------------------------------
(* NormalizeBufferLayout (lines 283-351).  A buffer handle is a string;    *)
(* two handles are the same object when the strings are equal.             *)

\* Array.prototype.sort with the comparator (a, b) => key(a) - key(b), key[i]
\* being the key of s[i]: ascending by key, elements of equal key in the order
\* they had (the sort is stable).
StableSort(s, key) ==
    LET Rank(i) == Cardinality({ j \in DOMAIN s :
                       key[j] < key[i] \/ (key[j] = key[i] /\ j < i) }) + 1
    IN  [ r \in DOMAIN s |-> s[CHOOSE i \in DOMAIN s : Rank(i) = r] ]

\* Position of the first element of the sequence s whose field f is v, or 0.
IndexOf(s, f, v) ==
    IF \E i \in DOMAIN s : s[i][f] = v
    THEN CHOOSE i \in DOMAIN s : s[i][f] = v /\ \A j \in 1 .. i - 1 : s[j][f] # v
    ELSE 0

\* layout.bufferOffset ?? 0
BufferOffsetOf(entry) ==
    IF "bufferOffset" \in DOMAIN entry THEN entry.bufferOffset ELSE 0

\* One turn of the first loop (lines 286-309).  bufferStrideAttribs, a Map of
\* Maps, is the sequence of its entries in insertion order, the value of an
\* entry being the sequence of the inner Map's entries in insertion order.
GroupEntry(bufferStrideAttribs, entry) ==
    IF Len(entry.attributes) = 0 THEN bufferStrideAttribs
    ELSE LET found == IndexOf(bufferStrideAttribs, "buffer", entry.buffer)
             outer == IF found = 0
                      THEN Append(bufferStrideAttribs,
                                  [ buffer |-> entry.buffer, strides |-> <<>> ])
                      ELSE bufferStrideAttribs
             b == IF found = 0 THEN Len(outer) ELSE found
             foundStride == IndexOf(outer[b].strides, "stride", entry.arrayStride)
             bufferStrides == IF foundStride = 0
                              THEN Append(outer[b].strides,
                                          [ stride |-> entry.arrayStride, attribs |-> <<>> ])
                              ELSE outer[b].strides
             k == IF foundStride = 0 THEN Len(bufferStrides) ELSE foundStride
             pushed == [ i \in DOMAIN entry.attributes |->
                           [ shaderLocation |-> entry.attributes[i].shaderLocation,
                             offset |-> entry.attributes[i].offset + BufferOffsetOf(entry),
                             format |-> entry.attributes[i].format ] ]
         IN  [ outer EXCEPT ![b].strides =
                 [ bufferStrides EXCEPT ![k].attribs = @ \o pushed ] ]

\* for (const layout of bufferLayouts)
RECURSIVE GroupEntries(_, _)
GroupEntries(bufferStrideAttribs, bufferLayouts) ==
    IF bufferLayouts = <<>> THEN bufferStrideAttribs
    ELSE GroupEntries(GroupEntry(bufferStrideAttribs, Head(bufferLayouts)),
                      Tail(bufferLayouts))

\* pushLayout (lines 311-318): the binding with its attributes sorted by
\* shader location.
pushLayout(buffer, bufferOffset, arrayStride, attributes) ==
    [ buffer |-> buffer, bufferOffset |-> bufferOffset, arrayStride |-> arrayStride,
      attributes |-> StableSort(attributes,
                        [ i \in DOMAIN attributes |-> attributes[i].shaderLocation ]) ]

\* Mutant: a binding is closed only when the adjusted offset is past the
\* stride (> for >=).
RECURSIVE SplitAttribsPastStride(_, _, _, _, _)
SplitAttribsPastStride(buffer, stride, attribs, minAttribOffset, attributes) ==
    IF attribs = <<>> THEN << pushLayout(buffer, minAttribOffset, stride, attributes) >>
    ELSE LET attrib == Head(attribs)
             adjustedOffset == attrib.offset - minAttribOffset
         IN  IF adjustedOffset > stride
             THEN << pushLayout(buffer, minAttribOffset, stride, attributes) >>
                  \o SplitAttribsPastStride(buffer, stride, Tail(attribs), attrib.offset,
                                            << [ offset |-> 0,
                                                 shaderLocation |-> attrib.shaderLocation,
                                                 format |-> attrib.format ] >>)
             ELSE SplitAttribsPastStride(buffer, stride, Tail(attribs), minAttribOffset,
                                         Append(attributes,
                                                [ offset |-> adjustedOffset,
                                                  shaderLocation |-> attrib.shaderLocation,
                                                  format |-> attrib.format ]))

\* The inner loop over the sorted attributes of one group (lines 329-346):
\* the bindings pushed from attribs on, the binding being collected having
\* the base minAttribOffset and the attributes collected so far.
RECURSIVE SplitAttribs(_, _, _, _, _)
SplitAttribs(buffer, stride, attribs, minAttribOffset, attributes) ==
    IF attribs = <<>> THEN << pushLayout(buffer, minAttribOffset, stride, attributes) >>
    ELSE LET attrib == Head(attribs)
             adjustedOffset == attrib.offset - minAttribOffset
         IN  IF adjustedOffset >= stride
             THEN << pushLayout(buffer, minAttribOffset, stride, attributes) >>
                  \o SplitAttribs(buffer, stride, Tail(attribs), attrib.offset,
                                  << [ offset |-> 0,
                                       shaderLocation |-> attrib.shaderLocation,
                                       format |-> attrib.format ] >>)
             ELSE SplitAttribs(buffer, stride, Tail(attribs), minAttribOffset,
                               Append(attributes,
                                      [ offset |-> adjustedOffset,
                                        shaderLocation |-> attrib.shaderLocation,
                                        format |-> attrib.format ]))

\* The bindings of one (buffer, stride) group (lines 323-347).
NormalizeGroup(buffer, stride, attribs) ==
    LET sorted == StableSort(attribs, [ i \in DOMAIN attribs |-> attribs[i].offset ])
    IN  SplitAttribs(buffer, stride, sorted, sorted[1].offset, <<>>)

\* for (const [stride, attribs] of strideAttribs)
RECURSIVE NormalizeStrides(_, _)
NormalizeStrides(buffer, strides) ==
    IF strides = <<>> THEN <<>>
    ELSE NormalizeGroup(buffer, Head(strides).stride, Head(strides).attribs)
         \o NormalizeStrides(buffer, Tail(strides))

\* for (const [buffer, strideAttribs] of bufferStrideAttribs)
RECURSIVE NormalizeBuffers(_)
NormalizeBuffers(bufferStrideAttribs) ==
    IF bufferStrideAttribs = <<>> THEN <<>>
    ELSE NormalizeStrides(Head(bufferStrideAttribs).buffer, Head(bufferStrideAttribs).strides)
         \o NormalizeBuffers(Tail(bufferStrideAttribs))

\* NormalizeBufferLayout without its final sort.
NormalizeBufferLayoutUnsorted(bufferLayouts) ==
    LET normalizedLayouts == NormalizeBuffers(GroupEntries(<<>>, bufferLayouts))
    IN  IF /\ Len(normalizedLayouts) >= 2
           /\ \E i \in DOMAIN normalizedLayouts : normalizedLayouts[i].attributes = <<>>
        THEN Throw
        ELSE [ throws |-> FALSE, layouts |-> normalizedLayouts ]

\* NormalizeBufferLayout(bufferLayouts).  The comparator of the final sort
\* reads attributes[0].shaderLocation: it throws a TypeError on a binding
\* without attributes, and it runs on every element when there are two or more.
NormalizeBufferLayout(bufferLayouts) ==
    LET normalizedLayouts == NormalizeBuffers(GroupEntries(<<>>, bufferLayouts))
    IN  IF /\ Len(normalizedLayouts) >= 2
           /\ \E i \in DOMAIN normalizedLayouts : normalizedLayouts[i].attributes = <<>>
        THEN Throw
        ELSE [ throws |-> FALSE,
               layouts |-> StableSort(normalizedLayouts,
                              [ i \in DOMAIN normalizedLayouts |->
                                  normalizedLayouts[i].attributes[1].shaderLocation ]) ]

----------------------------------------------------------------------------
(* Normalizer runs: NormalizeBufferLayout is applied to a list of entries, *)
(* then to the list with two neighbouring entries, or two neighbouring     *)
(* attributes of one entry, swapped.  The lists are closed under both      *)
(* swaps, and the swaps generate every permutation.                        *)

\* Longest list of entries given to the normalizer.
MaxEntries == 2

Handles == {"a", "b"}

\* Stride and buffer offset of an entry; the buffer offset may be absent.
EntryShapes ==
    { [ arrayStride |-> 16 ], [ arrayStride |-> 16, bufferOffset |-> 8 ],
      [ arrayStride |-> 32 ], [ arrayStride |-> 0 ] }

EntryAttribs ==
    { << Attrib(0, 0, "float32x3") >>,
      << Attrib(1, 12, "float32x3") >>,
      << Attrib(2, 20, "float32x2") >>,
      << Attrib(1, 40, "float32x3"), Attrib(0, 20, "float32x3") >>,
      << Attrib(0, 20, "float32x3"), Attrib(1, 40, "float32x3") >> }

EntrySamples ==
    { shape @@ [ buffer |-> h, attributes |-> a ] :
        shape \in EntryShapes, h \in Handles, a \in EntryAttribs }
    \cup { [ buffer |-> "a", arrayStride |-> 16, attributes |-> <<>> ] }

EntryLists == SeqsUpTo(EntrySamples, MaxEntries)

\* The sequence s with its elements i and i + 1 exchanged.
Swap(s, i) ==
    [ k \in DOMAIN s |-> IF k = i THEN s[i + 1] ELSE IF k = i + 1 THEN s[i] ELSE s[k] ]

NormalizeInit ==
    /\ npc = "start"
    /\ entries \in EntryLists
    /\ normalized = Throw /\ shuffled = <<>> /\ renormalized = Throw

Normalize ==
    /\ npc = "start"
    /\ normalized' = NormalizeBufferLayout(entries)
    /\ npc' = "normalized"
    /\ UNCHANGED <<entries, shuffled, renormalized, cacheVars, replayVars, codecVars,
                   buildVars>>

\* The same call with two neighbouring entries exchanged.
NormalizeSwappedEntries ==
    /\ npc = "normalized"
    /\ \E i \in 1 .. Len(entries) - 1 :
         /\ shuffled' = Swap(entries, i)
         /\ renormalized' = NormalizeBufferLayout(Swap(entries, i))
    /\ npc' = "shuffled"
    /\ UNCHANGED <<entries, normalized, cacheVars, replayVars, codecVars, buildVars>>

\* The same call with two neighbouring attributes of one entry exchanged.
NormalizeSwappedAttributes ==
    /\ npc = "normalized"
    /\ \E i \in DOMAIN entries :
         \E j \in 1 .. Len(entries[i].attributes) - 1 :
            LET swapped == [ entries EXCEPT ![i].attributes = Swap(@, j) ]
            IN  /\ shuffled' = swapped
                /\ renormalized' = NormalizeBufferLayout(swapped)
    /\ npc' = "shuffled"
    /\ UNCHANGED <<entries, normalized, cacheVars, replayVars, codecVars, buildVars>>

NextNormalize == Normalize \/ NormalizeSwappedEntries \/ NormalizeSwappedAttributes

InitNormalize == CacheInit /\ ReplayIdle /\ CodecIdle /\ NormalizeInit /\ BuildIdle

SpecNormalize == InitNormalize /\ [][NextNormalize]_vars

----------------------------------------------------------------------------
(* Claims about the normalizer. *)

Normalized == npc \in {"normalized", "shuffled"}

\* The (buffer handle, arrayStride) groups of an entry list.
Groups(in) ==
    { << in[i].buffer, in[i].arrayStride >> :
        i \in { k \in DOMAIN in : in[k].attributes # <<>> } }

\* The attributes of a group, each named by its entry and its place in it.
GroupAttribs(in, g) ==
    UNION { { << i, j >> : j \in DOMAIN in[i].attributes } :
              i \in { k \in DOMAIN in :
                        in[k].buffer = g[1] /\ in[k].arrayStride = g[2] } }

\* attribute.offset + entry.bufferOffset
AbsoluteOffset(in, p) == in[p[1]].attributes[p[2]].offset + BufferOffsetOf(in[p[1]])

AbsoluteOffsets(in, g) == { AbsoluteOffset(in, p) : p \in GroupAttribs(in, g) }

Min(S) == CHOOSE x \in S : \A y \in S : x <= y

Max(S) == CHOOSE x \in S : \A y \in S : y <= x

\* The attribute of place p as a binding of base `base` holds it.
Rebased(in, p, base) ==
    [ offset |-> AbsoluteOffset(in, p) - base,
      shaderLocation |-> in[p[1]].attributes[p[2]].shaderLocation,
      format |-> in[p[1]].attributes[p[2]].format ]

\* The bindings of the result that carry the handle and the stride of a group.
BindingsOf(out, g) ==
    IF out.throws THEN {}
    ELSE { k \in DOMAIN out.layouts :
             out.layouts[k].buffer = g[1] /\ out.layouts[k].arrayStride = g[2] }

\* The binding holds the attributes of the places P rebased to its buffer
\* offset, each as often as P has it, and nothing else.
HoldsExactly(binding, in, P) ==
    /\ Len(binding.attributes) = Cardinality(P)
    /\ \A p \in P :
          LET r == Rebased(in, p, binding.bufferOffset)
          IN  Cardinality({ q \in P : Rebased(in, q, binding.bufferOffset) = r })
                = Cardinality({ k \in DOMAIN binding.attributes :
                                  binding.attributes[k] = r })

\* The group has all its absolute offsets within one stride of the smallest.
InOneWindow(in, g) == Max(AbsoluteOffsets(in, g)) - Min(AbsoluteOffsets(in, g)) < g[2]

\* The result has one binding for the group: its buffer offset is the smallest
\* absolute offset and its attributes are the group's, rebased to it.
MergedIntoOne(in, out, g) ==
    /\ Cardinality(BindingsOf(out, g)) = 1
    /\ \A k \in BindingsOf(out, g) :
          /\ out.layouts[k].bufferOffset = Min(AbsoluteOffsets(in, g))
          /\ HoldsExactly(out.layouts[k], in, GroupAttribs(in, g))

\* C12 (normalizer merge), as claimed: a group whose absolute offsets lie
\* within one stride window of the smallest gets exactly one binding, with the
\* smallest absolute offset as buffer offset and the attributes rebased to it.
C12_Merge ==
    Normalized =>
        \A g \in Groups(entries) :
            InOneWindow(entries, g) => MergedIntoOne(entries, normalized, g)

\* C12 for the calls that return: there the group gets its one binding.
C12_MergeWhenReturned ==
    Normalized /\ ~normalized.throws =>
        \A g \in Groups(entries) :
            InOneWindow(entries, g) => MergedIntoOne(entries, normalized, g)

\* Two entries of offsets 0 and 12 on one handle and one stride were merged,
\* next to no other group.
C12_MergeReached ==
    /\ Normalized /\ ~normalized.throws
    /\ Len(normalized.layouts) = 1
    /\ \E g \in Groups(entries) :
          /\ AbsoluteOffsets(entries, g) = {0, 12}
          /\ Cardinality(GroupAttribs(entries, g)) = 2
          /\ InOneWindow(entries, g)

\* The bases of the bindings a scan in ascending offset opens: the smallest
\* offset, then each time the first offset that is a stride or more past the
\* current base.
RECURSIVE ScanBases(_, _)
ScanBases(offsets, stride) ==
    IF offsets = {} THEN {}
    ELSE LET base == Min(offsets)
         IN  {base} \cup ScanBases({ x \in offsets : x # base /\ x - base >= stride },
                                   stride)

\* The result has one binding per base of the scan, and each binding holds the
\* attributes from its base up to the next base, the one at the base with
\* offset 0.
SplitByScan(in, out, g) ==
    LET bases == ScanBases(AbsoluteOffsets(in, g), g[2])
        BaseOf(p) == Max({ b \in bases : b <= AbsoluteOffset(in, p) })
    IN  /\ Cardinality(BindingsOf(out, g)) = Cardinality(bases)
        /\ \A base \in bases :
              \E k \in BindingsOf(out, g) :
                  /\ out.layouts[k].bufferOffset = base
                  /\ HoldsExactly(out.layouts[k], in,
                                  { p \in GroupAttribs(in, g) : BaseOf(p) = base })
                  /\ \E a \in DOMAIN out.layouts[k].attributes :
                        out.layouts[k].attributes[a].offset = 0

\* C13 (normalizer split), as claimed: in every group an attribute that is a
\* stride or more past the base of the current binding closes that binding and
\* starts a new one, whose buffer offset is its absolute offset and in which
\* its offset is 0.
C13_Split ==
    Normalized => \A g \in Groups(entries) : SplitByScan(entries, normalized, g)

\* C13 for the calls that return.
C13_SplitWhenReturned ==
    Normalized /\ ~normalized.throws =>
        \A g \in Groups(entries) : SplitByScan(entries, normalized, g)

\* Stride 16 with the offsets 0 and 20 gave two bindings, the second with
\* the buffer offset 20.
C13_SplitReached ==
    /\ Normalized /\ ~normalized.throws
    /\ \E g \in Groups(entries) :
          /\ g[2] = 16 /\ AbsoluteOffsets(entries, g) = {0, 20}
          /\ Cardinality(BindingsOf(normalized, g)) = 2
          /\ \E k \in BindingsOf(normalized, g) :
                normalized.layouts[k].bufferOffset = 20

\* The least number of windows [b, b + stride) that cover the offsets.  A
\* window of a least cover can be moved up to the first offset it covers.
MinWindows(offsets, stride) ==
    Min({ Cardinality(B) :
            B \in { C \in SUBSET offsets :
                      \A x \in offsets : \E b \in C : b <= x /\ x < b + stride } })

\* C14 (normalizer minimality), as claimed: a group of stride 1 or more gets
\* as many bindings as the least number of stride windows that cover its
\* absolute offsets.
C14_Minimal ==
    Normalized =>
        \A g \in Groups(entries) :
            g[2] >= 1 => Cardinality(BindingsOf(normalized, g))
                            = MinWindows(AbsoluteOffsets(entries, g), g[2])

\* C14 for the calls that return.
C14_MinimalWhenReturned ==
    Normalized /\ ~normalized.throws =>
        \A g \in Groups(entries) :
            g[2] >= 1 => Cardinality(BindingsOf(normalized, g))
                            = MinWindows(AbsoluteOffsets(entries, g), g[2])

\* A group of three offsets needed, and got, three bindings.
C14_MinimalReached ==
    /\ Normalized /\ ~normalized.throws
    /\ \E g \in Groups(entries) :
          /\ Cardinality(BindingsOf(normalized, g)) = 3
          /\ MinWindows(AbsoluteOffsets(entries, g), g[2]) = 3

\* No two attributes of the entry list have the same shader location.
DistinctLocations(in) ==
    \A i, k \in DOMAIN in :
        \A j \in DOMAIN in[i].attributes, l \in DOMAIN in[k].attributes :
            in[i].attributes[j].shaderLocation = in[k].attributes[l].shaderLocation
                => i = k /\ j = l

\* C15 (normalizer order independence): for a list whose attributes have
\* pairwise distinct shader locations, exchanging two neighbouring entries or
\* two neighbouring attributes of an entry leaves the result as it is: the same
\* bindings in the same order, each with the same handle, buffer offset, stride
\* and attributes in the same order.  The lists are closed under the two
\* exchanges, which generate all permutations of the entries and of the
\* attributes inside an entry.
C15_OrderIndependent ==
    npc = "shuffled" /\ DistinctLocations(entries) => renormalized = normalized

\* C15 witness: a list with distinct shader locations was normalized to two
\* or more bindings, and again after an exchange that changed the list.
C15_Witness ==
    /\ npc = "shuffled" /\ DistinctLocations(entries)
    /\ shuffled # entries
    /\ ~normalized.throws /\ Len(normalized.layouts) >= 2
    /\ renormalized = normalized

\* An attribute as its absolute byte position, shader location and format.
Placed(attrib, base) ==
    [ position |-> attrib.offset + base,
      shaderLocation |-> attrib.shaderLocation,
      format |-> attrib.format ]

\* The attributes the result holds in the bindings of a group, each named by
\* its binding and its place in it.
BoundAttribs(out, g) ==
    UNION { { << k, a >> : a \in DOMAIN out.layouts[k].attributes } :
              k \in BindingsOf(out, g) }

\* The bindings of the group hold the attributes of the group at their
\* absolute positions, each as often as the entries have it, and no other.
Conserved(in, out, g) ==
    LET PlacedIn(p) == Placed(in[p[1]].attributes[p[2]], BufferOffsetOf(in[p[1]]))
        PlacedOut(q) == Placed(out.layouts[q[1]].attributes[q[2]],
                               out.layouts[q[1]].bufferOffset)
        ins == GroupAttribs(in, g)
        outs == BoundAttribs(out, g)
    IN  /\ Cardinality(ins) = Cardinality(outs)
        /\ \A p \in ins :
              Cardinality({ x \in ins : PlacedIn(x) = PlacedIn(p) })
                = Cardinality({ q \in outs : PlacedOut(q) = PlacedIn(p) })

\* Every binding of the result carries the handle and the stride of an entry
\* with attributes.
NoOtherBindings(in, out) ==
    \A k \in DOMAIN out.layouts :
        << out.layouts[k].buffer, out.layouts[k].arrayStride >> \in Groups(in)

\* C22 (normalizer conservation), as claimed: every attribute of every entry
\* with attributes appears exactly once in the result, in a binding of the
\* entry's handle and stride, with its shader location and format and at its
\* absolute byte position; the result holds no other attribute.
C22_Conservation ==
    Normalized =>
        /\ \A g \in Groups(entries) : Conserved(entries, normalized, g)
        /\ ~normalized.throws => NoOtherBindings(entries, normalized)

\* C22 for the calls that return.
C22_ConservationWhenReturned ==
    Normalized /\ ~normalized.throws =>
        /\ \A g \in Groups(entries) : Conserved(entries, normalized, g)
        /\ NoOtherBindings(entries, normalized)

\* Two groups on one handle with different strides, one of them with a buffer
\* offset, were normalized, and their attributes kept apart.
C22_ConservationReached ==
    /\ Normalized /\ ~normalized.throws
    /\ Cardinality(Groups(entries)) = 2
    /\ \A g \in Groups(entries) : g[1] = "a" /\ Conserved(entries, normalized, g)
    /\ \E i \in DOMAIN entries : BufferOffsetOf(entries[i]) = 8
    /\ \E i \in DOMAIN entries : Len(entries[i].attributes) = 2

\* The returned list is in ascending order of the shader location of the
\* first attribute of each binding.
SortedByFirstLocation(out) ==
    \A k \in 1 .. Len(out.layouts) - 1 :
        out.layouts[k].attributes[1].shaderLocation
            <= out.layouts[k + 1].attributes[1].shaderLocation

\* C23 (normalizer output order), as claimed: the returned list is in
\* ascending order of the shader location of each binding's first attribute,
\* and the first attribute of a binding is the one at the rebased offset 0.
C23_OutputOrder ==
    Normalized /\ ~normalized.throws =>
        /\ SortedByFirstLocation(normalized)
        /\ \A k \in DOMAIN normalized.layouts :
              normalized.layouts[k].attributes[1].offset = 0

\* C23, amended: the returned list is in ascending order of the shader
\* location of each binding's first attribute, and the first attribute of a
\* binding is the one of its smallest shader location.
C23_OutputOrderByLowestLocation ==
    Normalized /\ ~normalized.throws =>
        /\ SortedByFirstLocation(normalized)
        /\ \A k \in DOMAIN normalized.layouts :
              \A a \in DOMAIN normalized.layouts[k].attributes :
                  normalized.layouts[k].attributes[1].shaderLocation
                      <= normalized.layouts[k].attributes[a].shaderLocation

\* C23 witness: two bindings with first shader locations 0 and 1 were
\* returned in this order, the first with its attribute of location 0 behind
\* the one of location 1 in the buffer.
C23_Witness ==
    /\ Normalized /\ ~normalized.throws
    /\ Len(normalized.layouts) = 2
    /\ normalized.layouts[1].attributes[1].shaderLocation = 0
    /\ normalized.layouts[1].attributes[1].offset = 8
    /\ normalized.layouts[1].attributes[2].offset = 0
    /\ normalized.layouts[2].attributes[1].shaderLocation = 1

\* Every entry of the list has a stride of 1 or more.
PositiveStrides(in) == \A i \in DOMAIN in : in[i].arrayStride >= 1

\* The binding has an attribute, one of its attributes is at offset 0, every
\* offset is within the stride, and its buffer offset is the smallest of the
\* absolute offsets of its attributes, an absolute offset of the entries.
WellFormed(binding, in) ==
    /\ binding.attributes # <<>>
    /\ \E a \in DOMAIN binding.attributes : binding.attributes[a].offset = 0
    /\ \A a \in DOMAIN binding.attributes :
          /\ 0 <= binding.attributes[a].offset
          /\ binding.attributes[a].offset < binding.arrayStride
    /\ binding.bufferOffset
         = Min({ binding.bufferOffset + binding.attributes[a].offset :
                   a \in DOMAIN binding.attributes })
    /\ binding.bufferOffset
         \in AbsoluteOffsets(in, << binding.buffer, binding.arrayStride >>)

\* C26 (normalized bindings are well formed): for a list whose entries all
\* have a stride of 1 or more the call returns, and every binding returned
\* has at least one attribute, an attribute at offset 0, every offset o with
\* 0 <= o < arrayStride, and the smallest absolute offset of its attributes
\* as buffer offset.
C26_WellFormed ==
    Normalized /\ PositiveStrides(entries) =>
        /\ ~normalized.throws
        /\ \A k \in DOMAIN normalized.layouts :
              WellFormed(normalized.layouts[k], entries)

\* C26 witness: a group of stride 16 with the absolute offsets 12 and 28, a
\* full stride apart, was split into two bindings of one attribute each.
C26_Witness ==
    /\ Normalized /\ PositiveStrides(entries) /\ ~normalized.throws
    /\ Groups(entries) = { << "a", 16 >> }
    /\ AbsoluteOffsets(entries, << "a", 16 >>) = {12, 28}
    /\ Len(normalized.layouts) = 2
    /\ \A k \in DOMAIN normalized.layouts :
          /\ Len(normalized.layouts[k].attributes) = 1
          /\ WellFormed(normalized.layouts[k], entries)

\* The call returned a list without a binding that has no attributes, and
\* with bindings only for entries that have attributes.
ReturnedWithoutEmpty(in, out) ==
    /\ ~out.throws
    /\ \A k \in DOMAIN out.layouts : out.layouts[k].attributes # <<>>
    /\ NoOtherBindings(in, out)
    /\ (\A i \in DOMAIN in : in[i].attributes = <<>>) => out.layouts = <<>>

\* C27 (normalizer totality), as claimed: for every list whose entries have a
\* stride in 0 .. 2047, 0 included, and offsets of 0 or more, the call returns
\* a list in which no binding has an empty attribute list; entries without
\* attributes are dropped and get no binding.
C27_Total ==
    Normalized /\ (\A i \in DOMAIN entries : entries[i].arrayStride \in 0 .. 2047) =>
        ReturnedWithoutEmpty(entries, normalized)

\* The call throws exactly for the lists that hold an entry with attributes
\* and the stride 0, and returns as claimed for the others.
C27_ThrowsOnStrideZero ==
    Normalized =>
        IF \E i \in DOMAIN entries :
               entries[i].arrayStride = 0 /\ entries[i].attributes # <<>>
        THEN normalized.throws
        ELSE ReturnedWithoutEmpty(entries, normalized)

\* An entry without attributes next to one with an attribute was dropped.
C27_EmptyEntryDropped ==
    /\ Normalized /\ Len(entries) = 2 /\ entries[1].attributes = <<>>
    /\ ~normalized.throws /\ Len(normalized.layouts) = 1
    /\ normalized.layouts[1].buffer = "b"

----------------------------------------------------------------------------
(* The geometry builders: buildGeometry (src/common/geometry.js) and       *)
(* buildGeometryBatch (src/unnamed/part_001).                              *)
(*                                                                         *)
(* A source array is a record of its type and its length in elements; its  *)
(* field id tells two arrays of the same type and length apart, so that    *)
(* two references are the same object when the records are equal.  A       *)
(* descriptor is a record with a field for each property it has.           *)

\* Object.keys(AttribLocation), in order.
AttribNames ==
    << "position", "normal", "tangent", "texcoord0", "texcoord1", "color",
       "joints", "weights" >>

AttribLocation ==
    [ position |-> 0, normal |-> 1, tangent |-> 2, texcoord0 |-> 3, texcoord1 |-> 4,
      color |-> 5, joints |-> 6, weights |-> 7 ]

DefaultAttribFormat ==
    [ position |-> "float32x3", normal |-> "float32x3", tangent |-> "float32x3",
      texcoord0 |-> "float32x2", texcoord1 |-> "float32x2", color |-> "float32x4",
      joints |-> "uint16x4", weights |-> "float32x4" ]

DefaultStride ==
    [ uint8x2 |-> 2, uint8x4 |-> 4, sint8x2 |-> 2, sint8x4 |-> 4,
      unorm8x2 |-> 2, unorm8x4 |-> 4, snorm8x2 |-> 2, snorm8x4 |-> 4,
      uint16x2 |-> 4, uint16x4 |-> 8, sint16x2 |-> 4, sint16x4 |-> 8,
      unorm16x2 |-> 4, unorm16x4 |-> 8, snorm16x2 |-> 4, snorm16x4 |-> 8,
      float16x2 |-> 4, float16x4 |-> 8,
      float32 |-> 4, float32x2 |-> 8, float32x3 |-> 12, float32x4 |-> 16,
      uint32 |-> 4, uint32x2 |-> 8, uint32x3 |-> 12, uint32x4 |-> 16,
      sint32 |-> 4, sint32x2 |-> 8, sint32x3 |-> 12, sint32x4 |-> 16 ]

\* Bytes per element of an array type; a plain Array is converted to a
\* Float32Array (attributes) or a Uint32Array (indices), 4 bytes either way.
BytesPerElement ==
    [ Float32Array |-> 4, Uint16Array |-> 2, Uint32Array |-> 4, ArrayBuffer |-> 1,
      Array |-> 4 ]

\* byteArray.byteLength of the Uint8Array made over the values.
ByteLength(values) == values.length * BytesPerElement[values.type]

\* Mutant: the size is not rounded up.
NotAligned(n) == n

\* Math.ceil(n / 4) * 4
AlignTo4(n) == ((n + 3) \div 4) * 4

\* The property `values` of an array given in the place of an attribute
\* descriptor: arrays and typed arrays inherit the method values() of their
\* prototype, an ArrayBuffer has no such property.
PrototypeValues == [ type |-> "function" ]

\* attrib.values ?? attrib
ValuesOf(attrib) ==
    IF "values" \in DOMAIN attrib THEN attrib.values
    ELSE IF attrib.type = "ArrayBuffer" THEN attrib
    ELSE PrototypeValues

\* attrib?.format ?? DefaultAttribFormat[attribName]
FormatOf(attrib, attribName) ==
    IF "format" \in DOMAIN attrib THEN attrib.format ELSE DefaultAttribFormat[attribName]

\* Mutant: the stride of the descriptor is ignored.
StrideOfFormat(attrib, attribName) == DefaultStride[FormatOf(attrib, attribName)]

\* attrib?.stride ?? DefaultStride[format]
StrideOf(attrib, attribName) ==
    IF "stride" \in DOMAIN attrib THEN attrib.stride
    ELSE DefaultStride[FormatOf(attrib, attribName)]

\* attrib.offset ?? 0
OffsetOf(attrib) == IF "offset" \in DOMAIN attrib THEN attrib.offset ELSE 0

\* Number.MAX_SAFE_INTEGER, and byteLength / arrayStride: a quotient is the
\* pair of its numerator and denominator; the denominator 0 stands for a
\* value no quotient of a byte length exceeds.
MaxSafeInteger == [ n |-> 1, d |-> 0 ]

Quotient(n, d) == [ n |-> n, d |-> d ]

\* Math.min(a, b)
MathMin(a, b) == IF a.n * b.d <= b.n * a.d THEN a ELSE b

RECURSIVE GCD(_, _)
GCD(a, b) == IF b = 0 THEN a ELSE GCD(b, a % b)

\* The quotient in lowest terms, so that equal numbers are equal pairs.
Number(q) ==
    IF q.d = 0 THEN MaxSafeInteger
    ELSE [ n |-> q.n \div GCD(q.n, q.d), d |-> q.d \div GCD(q.n, q.d) ]

\* The array types the builders accept as values (lines 119-128).
ValueTypes == { "Float32Array", "Uint16Array", "Uint32Array", "ArrayBuffer", "Array" }

NoError == "none"

\* Mutant: the source is not looked up in arraySource; every attribute gets a
\* byte range of its own.
AddAttribNoLookup(acc, desc, attribName) ==
    IF acc.error # NoError \/ attribName \notin DOMAIN desc THEN acc
    ELSE LET attrib == desc[attribName]
             values == ValuesOf(attrib)
             source == [ values |-> values, bufferOffset |-> acc.required,
                         size |-> ByteLength(values) ]
         IN  IF values.type \notin ValueTypes
             THEN [ acc EXCEPT !.error = "Unknown values type" ]
             ELSE [ acc EXCEPT
                      !.arraySource = Append(@, source),
                      !.required = @ + AlignTo4(source.size),
                      !.maxVertices = MathMin(@, Quotient(source.size,
                                                          StrideOf(attrib, attribName))),
                      !.layouts = Append(@,
                          [ buffer |-> values,
                            arrayStride |-> StrideOf(attrib, attribName),
                            attributes |->
                                << [ shaderLocation |-> AttribLocation[attribName],
                                     format |-> FormatOf(attrib, attribName),
                                     offset |-> OffsetOf(attrib) + source.bufferOffset ] >> ]) ]

\* One turn of the loop over the attribute names (geometry.js lines 102-150,
\* part_001 lines 255-303).  acc holds arraySource (the Map, as the sequence
\* of its entries in insertion order), the required buffer size, maxVertices,
\* vertexBufferLayouts and the error thrown, if any.
AddAttrib(acc, desc, attribName) ==
    IF acc.error # NoError \/ attribName \notin DOMAIN desc THEN acc
    ELSE LET attrib == desc[attribName]
             values == ValuesOf(attrib)
             format == FormatOf(attrib, attribName)
             arrayStride == StrideOf(attrib, attribName)
             offset == OffsetOf(attrib)
             shaderLocation == AttribLocation[attribName]
             found == IndexOf(acc.arraySource, "values", values)
         IN  IF found = 0 /\ values.type \notin ValueTypes
             THEN [ acc EXCEPT !.error = "Unknown values type" ]
             ELSE LET source == IF found = 0
                                THEN [ values |-> values,
                                       bufferOffset |-> acc.required,
                                       size |-> ByteLength(values) ]
                                ELSE acc.arraySource[found]
                      entry == [ buffer |-> values,
                                 arrayStride |-> arrayStride,
                                 attributes |-> << [ shaderLocation |-> shaderLocation,
                                                     format |-> format,
                                                     offset |-> offset + source.bufferOffset ] >> ]
                  IN  IF found = 0
                      THEN [ acc EXCEPT
                               !.arraySource = Append(@, source),
                               !.required = @ + AlignTo4(source.size),
                               !.maxVertices = MathMin(@, Quotient(source.size, arrayStride)),
                               !.layouts = Append(@, entry) ]
                      ELSE [ acc EXCEPT !.layouts = Append(@, entry) ]

\* for (const attribName of Object.keys(AttribLocation))
RECURSIVE AddAttribs(_, _, _)
AddAttribs(acc, desc, names) ==
    IF names = <<>> THEN acc
    ELSE AddAttribs(AddAttrib(acc, desc, Head(names)), desc, Tail(names))

\* The vertex bindings of a geometry, one per normalized layout (geometry.js
\* lines 172-179, part_001 lines 334-341).
VertexBindings(bufferLayouts, arraySource) ==
    [ i \in DOMAIN bufferLayouts |->
        [ offset |-> bufferLayouts[i].bufferOffset,
          size |-> arraySource[IndexOf(arraySource, "values", bufferLayouts[i].buffer)].size ] ]

\* The copies into the mapped vertex buffer, one per entry of arraySource.
VertexCopies(arraySource) ==
    [ i \in DOMAIN arraySource |->
        [ source |-> arraySource[i].values,
          offset |-> arraySource[i].bufferOffset,
          size |-> arraySource[i].size ] ]

\* desc.topology ?? 'triangle-list'
TopologyOf(desc) == IF "topology" \in DOMAIN desc THEN desc.topology ELSE "triangle-list"

\* The state of the attribute loop before its first turn.
NoAttribs ==
    [ arraySource |-> <<>>, required |-> 0, maxVertices |-> MaxSafeInteger,
      layouts |-> <<>>, error |-> NoError ]

\* A build that threw: the error, and the layout cache as the throw left it.
Thrown(c, h, error) == [ throws |-> TRUE, error |-> error, c |-> c, h |-> h ]

\* desc.drawCount, else the number of indices, else maxVertices
\* (geometry.js lines 214-221, part_001 lines 343-350).
DrawCountOf(desc, maxVertices) ==
    IF "drawCount" \in DOMAIN desc THEN Quotient(desc.drawCount, 1)
    ELSE IF "indices" \in DOMAIN desc THEN Quotient(desc.indices.length, 1)
    ELSE Number(maxVertices)

\* The index array the single builder uploads: a plain Array becomes a
\* Uint32Array, a typed array is taken as it is (geometry.js lines 182-189).
IndexArrayOf(desc) ==
    IF desc.indices.type = "Array"
    THEN [ desc.indices EXCEPT !.type = "Uint32Array" ]
    ELSE desc.indices

\* The geometry record of both builders before its index binding: the layout
\* the cache returned, the vertex bindings and the draw count.
GeometryOf(desc, acc, bufferLayouts, created) ==
    [ layout |-> created.ref,
      vertexBindings |-> VertexBindings(bufferLayouts, acc.arraySource),
      drawCount |-> DrawCountOf(desc, acc.maxVertices) ]

\* buildGeometry from the layout on (geometry.js lines 194-228): created is
\* what createLayout returned.  The result has no indexBinding field when the
\* binding is undefined.
buildGeometryCreated(desc, acc, bufferLayouts, indexFormat, created) ==
    LET geometry == GeometryOf(desc, acc, bufferLayouts, created)
        indexBinding == [ format |-> indexFormat, offset |-> 0,
                          size |-> ByteLength(IndexArrayOf(desc)) ]
    IN  [ throws |-> FALSE, c |-> created.c, h |-> created.h,
          geometries |-> << IF "indices" \in DOMAIN desc
                            THEN geometry @@ [ indexBinding |-> indexBinding ]
                            ELSE geometry >>,
          vertexBuffer |-> [ size |-> acc.required,
                             copies |-> VertexCopies(acc.arraySource) ] ]

\* buildGeometry from the normalized layouts on (geometry.js lines 156-228).
buildGeometryNormalized(c, h, desc, acc, bufferLayouts) ==
    IF bufferLayouts.throws THEN Thrown(c, h, "TypeError")
    ELSE LET indexFormat ==
                 IF "indices" \in DOMAIN desc /\ IndexArrayOf(desc).type = "Uint16Array"
                 THEN "uint16" ELSE "uint32"
         IN  buildGeometryCreated(desc, acc, bufferLayouts.layouts, indexFormat,
                                  createLayout(c, h, bufferLayouts.layouts,
                                               TopologyOf(desc), indexFormat))

\* buildGeometry after its attribute loop (geometry.js lines 152-228).
buildGeometryAttribs(c, h, desc, acc) ==
    IF acc.error # NoError THEN Thrown(c, h, acc.error)
    ELSE IF acc.required = 0 THEN Thrown(c, h, "No vertex data provided")
    ELSE buildGeometryNormalized(c, h, desc, acc, NormalizeBufferLayout(acc.layouts))

\* buildGeometry(device, desc) of src/common/geometry.js, on the layout cache
\* c with the layout objects h.
buildGeometry(c, h, desc) ==
    buildGeometryAttribs(c, h, desc, AddAttribs(NoAttribs, desc, AttribNames))

\* The state of buildGeometryBatch before the first descriptor.
BatchStart(c, h) ==
    [ arraySource |-> <<>>, requiredVertexBufferSize |-> 0,
      requiredIndexBufferSize |-> 0, geometries |-> <<>>, error |-> NoError,
      c |-> c, h |-> h ]

\* One turn of the loop over descArray from the layout on (part_001 lines
\* 334-357): created is what createLayout returned.
BatchDescCreated(st, desc, acc, bufferLayouts, indexFormat, created) ==
    LET hasIndices == "indices" \in DOMAIN desc
        geometry == GeometryOf(desc, acc, bufferLayouts, created)
        indexBinding == [ format |-> indexFormat,
                          offset |-> st.requiredIndexBufferSize,
                          size |-> ByteLength(desc.indices),
                          firstIndex |-> Quotient(0, 1) ]
    IN  [ arraySource |-> acc.arraySource,
          requiredVertexBufferSize |-> acc.required,
          requiredIndexBufferSize |->
              st.requiredIndexBufferSize
                + (IF hasIndices THEN ByteLength(desc.indices) ELSE 0),
          geometries |-> Append(st.geometries,
                                IF hasIndices
                                THEN geometry @@ [ indexBinding |-> indexBinding ]
                                ELSE geometry),
          error |-> NoError,
          c |-> created.c, h |-> created.h ]

\* One turn of the loop over descArray from the normalized layouts on
\* (part_001 lines 331-357).  With no indices the index format is undefined,
\* for which createLayout takes its default, 'uint32'.
BatchDescNormalized(st, desc, acc, bufferLayouts) ==
    IF bufferLayouts.throws THEN [ st EXCEPT !.error = "TypeError" ]
    ELSE LET indexFormat ==
                 IF "indices" \in DOMAIN desc /\ desc.indices.type = "Uint16Array"
                 THEN "uint16" ELSE "uint32"
         IN  BatchDescCreated(st, desc, acc, bufferLayouts.layouts, indexFormat,
                              createLayout(st.c, st.h, bufferLayouts.layouts,
                                           TopologyOf(desc), indexFormat))

\* One turn of the loop over descArray after its attribute loop (part_001
\* lines 305-357).
BatchDescAttribs(st, desc, acc) ==
    IF acc.error # NoError THEN [ st EXCEPT !.error = acc.error ]
    ELSE BatchDescNormalized(st, desc, acc, NormalizeBufferLayout(acc.layouts))

\* One turn of the loop over descArray (part_001 lines 251-358).  The
\* attribute loop starts from the arraySource and the vertex buffer size the
\* earlier descriptors left, with maxVertices and vertexBufferLayouts fresh.
BatchDesc(st, desc) ==
    IF st.error # NoError THEN st
    ELSE BatchDescAttribs(st, desc,
                          AddAttribs([ NoAttribs EXCEPT
                                         !.arraySource = st.arraySource,
                                         !.required = st.requiredVertexBufferSize ],
                                     desc, AttribNames))

\* for (const desc of descArray)
RECURSIVE BatchLoop(_, _)
BatchLoop(st, descArray) ==
    IF descArray = <<>> THEN st
    ELSE BatchLoop(BatchDesc(st, Head(descArray)), Tail(descArray))

\* The index binding after the indices were copied into the shared index
\* buffer (part_001 lines 392-403): firstIndex is the byte offset divided by
\* the index width, the offset is 0 and the size is undefined (no field).
SharedIndexBinding(binding) ==
    [ format |-> binding.format,
      offset |-> 0,
      firstIndex |-> Number(Quotient(binding.offset,
                                     IF binding.format = "uint16" THEN 2 ELSE 4)) ]

\* The copies into the shared index buffer, geometry by geometry.
IndexCopies(geometries) ==
    [ i \in { k \in DOMAIN geometries : "indexBinding" \in DOMAIN geometries[k] } |->
        [ offset |-> geometries[i].indexBinding.offset,
          size |-> geometries[i].indexBinding.size ] ]

\* buildGeometryBatch(device, descArray) of src/unnamed/part_001.
buildGeometryBatch(c, h, descArray) ==
    LET st == BatchLoop(BatchStart(c, h), descArray)
    IN  IF st.error # NoError THEN Thrown(st.c, st.h, st.error)
        ELSE IF st.requiredVertexBufferSize = 0
        THEN Thrown(st.c, st.h, "No vertex data provided")
        ELSE [ throws |-> FALSE, c |-> st.c, h |-> st.h,
               geometries |->
                   IF st.requiredIndexBufferSize > 0
                   THEN [ i \in DOMAIN st.geometries |->
                            IF "indexBinding" \in DOMAIN st.geometries[i]
                            THEN [ st.geometries[i] EXCEPT
                                     !.indexBinding = SharedIndexBinding(@) ]
                            ELSE st.geometries[i] ]
                   ELSE st.geometries,
               vertexBuffer |-> [ size |-> st.requiredVertexBufferSize,
                                  copies |-> VertexCopies(st.arraySource) ],
               indexBuffer |-> [ size |-> st.requiredIndexBufferSize,
                                 copies |-> IF st.requiredIndexBufferSize > 0
                                            THEN IndexCopies(st.geometries)
                                            ELSE <<>> ] ]

\* buildGeometry called on each descriptor of a list in turn, on one layout
\* cache: the results in order, each with the cache as the call left it.
RECURSIVE BuildEach(_, _, _)
BuildEach(c, h, descArray) ==
    IF descArray = <<>> THEN <<>>
    ELSE LET geom == buildGeometry(c, h, Head(descArray))
         IN  << geom >> \o BuildEach(geom.c, geom.h, Tail(descArray))

----------------------------------------------------------------------------
(* Builder runs: a list of descriptors is given to buildGeometryBatch, and *)
(* descriptor by descriptor to buildGeometry, each module starting with    *)
(* its own empty layout cache.                                             *)

\* Longest list of descriptors of a run.
MaxBatch == 2

Float32Array(id, length) == [ id |-> id, type |-> "Float32Array", length |-> length ]

\* The vertex array of BoxGeometryDesc: 36 vertices of 8 floats.
BoxVertArray == Float32Array("boxVertArray", 288)

\* The descriptor BoxGeometryDesc builds over a vertex array.
BoxGeometryDesc(array) ==
    [ position |-> [ values |-> array, stride |-> 32 ],
      normal |-> [ values |-> array, stride |-> 32, offset |-> 12 ],
      texcoord0 |-> [ values |-> array, stride |-> 32, offset |-> 24 ] ]

\* Positions and normals in two arrays of their own, with indices.
SeparateDesc(positions, normals, indices) ==
    [ position |-> [ values |-> positions ], normal |-> [ values |-> normals ],
      indices |-> indices ]

DescSamples ==
    { BoxGeometryDesc(BoxVertArray),
      BoxGeometryDesc(Float32Array("otherBox", 192)),
      SeparateDesc(Float32Array("p", 9), Float32Array("n", 9),
                   [ id |-> "i", type |-> "Array", length |-> 6 ]),
      SeparateDesc(Float32Array("p2", 18), Float32Array("n2", 18),
                   [ id |-> "i16", type |-> "Uint16Array", length |-> 3 ]),
      [ position |-> [ values |-> Float32Array("p", 9) ],
        normal |-> [ values |-> Float32Array("p", 9) ] ],
      [ topology |-> "triangle-list" ],
      [ position |-> [ values |-> Float32Array("p", 9) ], topology |-> "triangle-strip",
        indices |-> [ id |-> "i16", type |-> "Uint16Array", length |-> 3 ] ],
      [ position |-> [ values |-> Float32Array("p2", 18) ], topology |-> "triangle-strip",
        indices |-> [ id |-> "i", type |-> "Array", length |-> 6 ] ],
      [ position |-> [ id |-> "buffer", type |-> "ArrayBuffer", length |-> 48 ] ],
      [ position |-> Float32Array("p", 9) ],
      [ position |-> [ values |-> [ id |-> "bytes", type |-> "ArrayBuffer", length |-> 10 ],
                       format |-> "uint8x2" ],
        normal |-> [ values |-> Float32Array("n", 9) ] ],
      [ position |-> [ values |-> Float32Array("p", 9) ], drawCount |-> 2 ],
      [ position |-> [ values |-> Float32Array("p", 9) ],
        normal |-> [ values |-> Float32Array("p", 9), stride |-> 36 ] ],
      [ position |-> [ values |-> Float32Array("pn", 18) ],
        normal |-> [ values |-> Float32Array("pn", 18), offset |-> 36 ] ] }

DescArrays == SeqsUpTo(DescSamples, MaxBatch)

BuildInit ==
    /\ bpc = "start"
    /\ descs \in DescArrays
    /\ built = Throw /\ alone = <<>>

BuildBatch ==
    /\ bpc = "start"
    /\ built' = buildGeometryBatch(FreshCache, <<>>, descs)
    /\ bpc' = "batch"
    /\ UNCHANGED <<descs, alone, cacheVars, replayVars, codecVars, normVars>>

BuildAlone ==
    /\ bpc = "batch"
    /\ alone' = BuildEach(FreshCache, <<>>, descs)
    /\ bpc' = "built"
    /\ UNCHANGED <<descs, built, cacheVars, replayVars, codecVars, normVars>>

NextBuild == BuildBatch \/ BuildAlone

InitBuild == CacheInit /\ ReplayIdle /\ CodecIdle /\ NormalizeIdle /\ BuildInit

SpecBuild == InitBuild /\ [][NextBuild]_vars

----------------------------------------------------------------------------
(* Claims about the geometry builders. *)

\* The attribute slots a descriptor fills.
SlotsOf(desc) == { name \in Range(AttribNames) : name \in DOMAIN desc }

\* The source arrays the slots of a list of descriptors reference.
SourcesOf(descArray) ==
    UNION { { ValuesOf(descArray[i][name]) : name \in SlotsOf(descArray[i]) } :
              i \in DOMAIN descArray }

RECURSIVE SumAligned(_)
SumAligned(sources) ==
    IF sources = {} THEN 0
    ELSE LET a == CHOOSE x \in sources : TRUE
         IN  AlignTo4(ByteLength(a)) + SumAligned(sources \ {a})

\* The build copied each source array of the descriptors once, and the size
\* of its vertex buffer is the sum of their sizes, each rounded up to 4.
CopiedOnce(result, descArray) ==
    LET copies == result.vertexBuffer.copies
        sources == SourcesOf(descArray)
    IN  /\ \A a \in sources :
              Cardinality({ k \in DOMAIN copies : copies[k].source = a }) = 1
        /\ Len(copies) = Cardinality(sources)
        /\ result.vertexBuffer.size = SumAligned(sources)

\* C16 (source dedup): a build, of one descriptor or of a batch, gives every
\* source array one byte range and copies it once, however many slots
\* reference it, and the vertex buffer has the size of the distinct source
\* arrays, each rounded up to a multiple of 4.
C16_SourceDedup ==
    /\ bpc \in {"batch", "built"} /\ ~built.throws => CopiedOnce(built, descs)
    /\ bpc = "built" =>
          \A i \in DOMAIN alone :
              ~alone[i].throws => CopiedOnce(alone[i], << descs[i] >>)

\* C16 witness: both builders have built the box, whose three slots share one
\* array, next to a descriptor with an array of its own whose size is no
\* multiple of 4.
C16_Witness ==
    /\ bpc = "built" /\ ~built.throws /\ Len(descs) = 2
    /\ descs[1] = BoxGeometryDesc(BoxVertArray)
    /\ Cardinality(SourcesOf(descs)) = 3
    /\ built.vertexBuffer.size = 1152 + 12 + 36
    /\ Len(built.vertexBuffer.copies) = 3
    /\ ~alone[1].throws /\ Len(alone[1].vertexBuffer.copies) = 1

NoVertexData == "No vertex data provided"

\* The descriptor has no attribute slot that bears data.
DataLess(desc) == SlotsOf(desc) = {}

\* buildGeometry fails with the no-vertex-data error on every descriptor
\* without data.
SingleBuildRejectsDataLess ==
    bpc = "built" =>
        \A i \in DOMAIN alone :
            DataLess(descs[i]) => alone[i].throws /\ alone[i].error = NoVertexData

\* buildGeometryBatch fails on every batch that holds a descriptor without
\* data: with the no-vertex-data error, or with the error another descriptor
\* of the batch raises on its own.
BatchBuildRejectsDataLess ==
    bpc \in {"batch", "built"} /\ (\E i \in DOMAIN descs : DataLess(descs[i])) =>
        /\ built.throws
        /\ \/ built.error = NoVertexData
           \/ \E j \in DOMAIN descs :
                 LET geom == buildGeometry(FreshCache, <<>>, descs[j])
                 IN  geom.throws /\ geom.error = built.error

\* C17 (no-vertex-data error), as claimed: both builders fail with the
\* no-vertex-data error for every descriptor without data and return no
\* geometry for it, in a batch also when other descriptors carry data.
C17_NoVertexData == SingleBuildRejectsDataLess /\ BatchBuildRejectsDataLess

\* A batch of descriptors that are all without data was rejected.
C17_EmptyBatchRejected ==
    /\ bpc = "built" /\ Len(descs) = 2
    /\ \A i \in DOMAIN descs : DataLess(descs[i])
    /\ built.throws /\ built.error = NoVertexData

\* The geometry is the box: a layout of one buffer of stride 32 with position,
\* normal and texcoord0 at the offsets 0, 12 and 24, no index binding and 36
\* vertices to draw.
IsBoxGeometry(geometry, h) ==
    /\ Len(h[geometry.layout].buffers) = 1
    /\ h[geometry.layout].buffers[1].arrayStride = 32
    /\ h[geometry.layout].buffers[1].attributes
         = << [ shaderLocation |-> 0, format |-> "float32x3", offset |-> 0 ],
              [ shaderLocation |-> 1, format |-> "float32x3", offset |-> 12 ],
              [ shaderLocation |-> 3, format |-> "float32x2", offset |-> 24 ] >>
    /\ "indexBinding" \notin DOMAIN geometry
    /\ geometry.drawCount = Quotient(36, 1)

\* C18 (box scenario): building the default BoxGeometryDesc, with
\* buildGeometry or as a batch of its own with buildGeometryBatch, gives a
\* layout with exactly one buffer of stride 32 holding the attributes of the
\* shader locations 0, 1 and 3 at the offsets 0, 12 and 24, no index binding
\* and the draw count 36.
C18_Box ==
    /\ bpc = "built" =>
          \A i \in DOMAIN descs :
              descs[i] = BoxGeometryDesc(BoxVertArray) =>
                  /\ ~alone[i].throws
                  /\ IsBoxGeometry(alone[i].geometries[1], alone[i].h)
    /\ bpc \in {"batch", "built"} /\ descs = << BoxGeometryDesc(BoxVertArray) >> =>
          /\ ~built.throws
          /\ Len(built.geometries) = 1
          /\ IsBoxGeometry(built.geometries[1], built.h)

\* C18 witness: the box was built on its own by both builders.
C18_Witness ==
    /\ bpc = "built" /\ descs = << BoxGeometryDesc(BoxVertArray) >>
    /\ IsBoxGeometry(built.geometries[1], built.h)
    /\ IsBoxGeometry(alone[1].geometries[1], alone[1].h)
    /\ built.vertexBuffer.size = 1152

\* The strip index format a descriptor asks for: the format of its indices
\* when its topology is a strip, nothing otherwise.
StripFormatOf(desc) ==
    IF ~IsStrip(TopologyOf(desc)) THEN Undefined
    ELSE IF "indices" \in DOMAIN desc /\ desc.indices.type = "Uint16Array" THEN "uint16"
    ELSE "uint32"

\* Two descriptors fill the same attribute slots with the same formats, and
\* ask for the same topology and strip index format.
SameSlotsAndFormats(d, e) ==
    /\ SlotsOf(d) = SlotsOf(e)
    /\ \A name \in SlotsOf(d) :
          /\ ValuesOf(d[name]).type \in ValueTypes /\ ValuesOf(e[name]).type \in ValueTypes
          /\ FormatOf(d[name], name) = FormatOf(e[name], name)
    /\ TopologyOf(d) = TopologyOf(e)
    /\ StripFormatOf(d) = StripFormatOf(e)

\* Two descriptors arrange their data alike: slot by slot the same stride and
\* offset, and the same slots share a source array.
SameArrangement(d, e) ==
    /\ \A name \in SlotsOf(d) :
          /\ StrideOf(d[name], name) = StrideOf(e[name], name)
          /\ OffsetOf(d[name]) = OffsetOf(e[name])
    /\ \A a, b \in SlotsOf(d) :
          ValuesOf(d[a]) = ValuesOf(d[b]) <=> ValuesOf(e[a]) = ValuesOf(e[b])

\* The ids of the layouts of the geometries i and j of a batch, and of the
\* geometries buildGeometry returned for the descriptors i and j, are equal.
SameLayoutIds(i, j) ==
    /\ bpc \in {"batch", "built"} /\ ~built.throws =>
          built.h[built.geometries[i].layout].id = built.h[built.geometries[j].layout].id
    /\ bpc = "built" /\ ~alone[i].throws /\ ~alone[j].throws =>
          alone[i].h[alone[i].geometries[1].layout].id
              = alone[j].h[alone[j].geometries[1].layout].id

\* C19 (shared layout id), as claimed: two geometries with the same attribute
\* slots and formats get the same layout id, whatever their vertex data.
C19_SharedLayoutId ==
    \A i, j \in DOMAIN descs :
        SameSlotsAndFormats(descs[i], descs[j]) => SameLayoutIds(i, j)

\* C19, amended: two geometries with the same attribute slots and formats,
\* the same stride and offset in every slot and the same slots sharing a
\* source array get the same layout id, whatever the source arrays, their
\* lengths and their places in the shared vertex buffer.
C19_SharedLayoutIdSameArrangement ==
    \A i, j \in DOMAIN descs :
        SameSlotsAndFormats(descs[i], descs[j]) /\ SameArrangement(descs[i], descs[j])
            => SameLayoutIds(i, j)

\* C19 witness: a batch of two boxes over arrays of different lengths was
\* built; the second has its data behind the first's in the vertex buffer, and
\* both have the layout of id 1, also when built one after the other.
C19_Witness ==
    /\ bpc = "built" /\ Len(descs) = 2 /\ ~built.throws
    /\ SourcesOf(<< descs[1] >>) # SourcesOf(<< descs[2] >>)
    /\ SameSlotsAndFormats(descs[1], descs[2]) /\ SameArrangement(descs[1], descs[2])
    /\ built.geometries[2].vertexBindings[1].offset = 1152
    /\ built.geometries[1].vertexBindings[1].size # built.geometries[2].vertexBindings[1].size
    /\ built.h[built.geometries[2].layout].id = 1
    /\ alone[2].h[alone[2].geometries[1].layout].id = 1

\* The index format the claim gives an index array: 32 bits for a plain
\* sequence of numbers, 16 bits for a 16-bit typed array.
ClaimedIndexFormat(indices) == IF indices.type = "Uint16Array" THEN "uint16" ELSE "uint32"

\* The geometry built for a descriptor with indices has an index binding of
\* the claimed format, and its layout carries that format as strip index
\* format when the topology is a strip, and none otherwise.
IndexFormatChosen(desc, geometry, h) ==
    /\ "indexBinding" \in DOMAIN geometry
    /\ geometry.indexBinding.format = ClaimedIndexFormat(desc.indices)
    /\ h[geometry.layout].stripIndexFormat
         = IF IsStrip(TopologyOf(desc)) THEN ClaimedIndexFormat(desc.indices)
           ELSE Undefined

\* C20 (index format choice): for a descriptor with indices, both builders
\* give the index binding the format uint32 for a plain sequence and uint16
\* for a 16-bit typed array; the layout has that format as stripIndexFormat
\* exactly when the topology is line-strip or triangle-strip; and two
\* descriptors of another topology that differ in the width of their indices
\* only get the same layout id.
C20_IndexFormat ==
    /\ \A i \in DOMAIN descs :
          "indices" \in DOMAIN descs[i] =>
              /\ bpc \in {"batch", "built"} /\ ~built.throws =>
                    IndexFormatChosen(descs[i], built.geometries[i], built.h)
              /\ bpc = "built" /\ ~alone[i].throws =>
                    IndexFormatChosen(descs[i], alone[i].geometries[1], alone[i].h)
    /\ \A i, j \in DOMAIN descs :
          /\ "indices" \in DOMAIN descs[i] /\ "indices" \in DOMAIN descs[j]
          /\ ~IsStrip(TopologyOf(descs[i]))
          /\ SameSlotsAndFormats(descs[i], descs[j])
          /\ SameArrangement(descs[i], descs[j])
          => SameLayoutIds(i, j)

\* C20 witness: a triangle strip with 16-bit indices and a triangle list with
\* a plain index sequence were built as a batch and one by one: the strip's
\* layout has the strip index format uint16 and its binding the format uint16,
\* the list's layout has no strip index format and its binding is uint32.
C20_Witness ==
    /\ bpc = "built" /\ Len(descs) = 2 /\ ~built.throws
    /\ \A i \in DOMAIN descs : "indices" \in DOMAIN descs[i]
    /\ IsStrip(TopologyOf(descs[1])) /\ descs[1].indices.type = "Uint16Array"
    /\ ~IsStrip(TopologyOf(descs[2])) /\ descs[2].indices.type = "Array"
    /\ built.h[built.geometries[1].layout].stripIndexFormat = "uint16"
    /\ built.geometries[1].indexBinding.format = "uint16"
    /\ built.h[built.geometries[2].layout].stripIndexFormat = Undefined
    /\ built.geometries[2].indexBinding.format = "uint32"
    /\ ~alone[1].throws /\ alone[1].geometries[1].indexBinding.format = "uint16"

\* Geometry i of the batch and the geometry buildGeometry returned for
\* descriptor i have layouts of the same content.
SameLayoutAsAlone(i) ==
    [ built.h[built.geometries[i].layout] EXCEPT !.id = 0 ]
        = [ alone[i].h[alone[i].geometries[1].layout] EXCEPT !.id = 0 ]

\* Geometry i of the batch and the geometry buildGeometry returned for
\* descriptor i have layouts of the same id; the ids of the two modules'
\* caches run alike when every descriptor of the list built on its own.
SameIdAsAlone(i) ==
    (\A j \in DOMAIN alone : ~alone[j].throws) =>
        built.h[built.geometries[i].layout].id
            = alone[i].h[alone[i].geometries[1].layout].id

\* Every geometry of a batch has the layout, with its id, of the geometry
\* built from its descriptor alone.
C21_SameLayoutAsAlone ==
    bpc = "built" /\ ~built.throws =>
        \A i \in DOMAIN descs :
            ~alone[i].throws => SameLayoutAsAlone(i) /\ SameIdAsAlone(i)

\* C21 (batch equals independent builds), as claimed: every geometry of a
\* batch has the same layout, with the same id, and the same drawCount as the
\* geometry built from its descriptor alone, also when two descriptors of the
\* batch reference the same source array.
C21_BatchEqualsAlone ==
    bpc = "built" /\ ~built.throws =>
        \A i \in DOMAIN descs :
            ~alone[i].throws =>
                /\ SameLayoutAsAlone(i) /\ SameIdAsAlone(i)
                /\ built.geometries[i].drawCount = alone[i].geometries[1].drawCount

\* A batch of two descriptors over one source array was built: the second
\* geometry has the layout of the geometry built alone, and another drawCount.
C21_SharedSourceReached ==
    /\ bpc = "built" /\ ~built.throws /\ Len(descs) = 2
    /\ SourcesOf(<< descs[1] >>) = SourcesOf(<< descs[2] >>)
    /\ ~alone[2].throws /\ SameLayoutAsAlone(2)
    /\ built.geometries[2].drawCount = MaxSafeInteger
    /\ alone[2].geometries[1].drawCount = Quotient(3, 1)

\* The place of the first slot of a list of descriptors that references the
\* source array a, the slots counted descriptor by descriptor in the order of
\* the attribute names.
FirstUse(descArray, a) ==
    Min(UNION { { i * (Len(AttribNames) + 1) + n :
                    n \in { m \in DOMAIN AttribNames :
                              /\ AttribNames[m] \in DOMAIN descArray[i]
                              /\ ValuesOf(descArray[i][AttribNames[m]]) = a } } :
                  i \in DOMAIN descArray })

\* The byte ranges the build gave the source arrays: each starts at a
\* multiple of 4, the first at 0 and each next one where the one before ends,
\* rounded up to 4; they follow the order of first use, are pairwise
\* disjoint and lie inside the vertex buffer, whose size is the end of the
\* last one, rounded up to 4.
PackedRanges(result, descArray) ==
    LET copies == result.vertexBuffer.copies
        size == result.vertexBuffer.size
    IN  /\ \A k \in DOMAIN copies :
              /\ copies[k].offset % 4 = 0
              /\ copies[k].size = ByteLength(copies[k].source)
              /\ copies[k].offset + copies[k].size <= size
              /\ copies[k].offset = IF k = 1 THEN 0
                                    ELSE copies[k - 1].offset
                                           + ((copies[k - 1].size + 3) \div 4) * 4
        /\ \A k, l \in DOMAIN copies :
              k < l => /\ copies[k].offset + copies[k].size <= copies[l].offset
                       /\ copies[k].source # copies[l].source
                       /\ FirstUse(descArray, copies[k].source)
                            < FirstUse(descArray, copies[l].source)
        /\ { copies[k].source : k \in DOMAIN copies } = SourcesOf(descArray)
        /\ copies # <<>> =>
              size = copies[Len(copies)].offset
                       + ((copies[Len(copies)].size + 3) \div 4) * 4

\* C24 (packed source ranges): in every build, of one descriptor or of a
\* batch, each distinct source array has a byte range of the vertex buffer
\* that starts at a multiple of 4; the ranges are pairwise disjoint, follow
\* the order of first use without gaps other than the padding to 4, and lie
\* inside the buffer, whose size is the sum of the sizes rounded up to 4.
C24_PackedRanges ==
    /\ bpc \in {"batch", "built"} /\ ~built.throws => PackedRanges(built, descs)
    /\ bpc = "built" =>
          \A i \in DOMAIN alone :
              ~alone[i].throws => PackedRanges(alone[i], << descs[i] >>)

\* C24 witness: a batch with a source of 10 bytes, padded to 12, followed by
\* two more sources was built; the third source starts at 48.
C24_Witness ==
    /\ bpc = "built" /\ ~built.throws /\ Len(descs) = 2
    /\ Len(built.vertexBuffer.copies) = 3
    /\ built.vertexBuffer.copies[1].size = 10
    /\ built.vertexBuffer.copies[2].offset = 12
    /\ built.vertexBuffer.copies[3].offset = 48
    /\ built.vertexBuffer.size = 96
    /\ ~alone[1].throws /\ alone[1].vertexBuffer.size = 48

\* Two quotients are the same number.
SameNumber(a, b) == a.n * b.d = b.n * a.d /\ (a.d = 0 <=> b.d = 0)

\* The least, over the slots of a descriptor, of the byte size of the slot's
\* source array divided by the slot's stride.
LeastVertexCount(desc) ==
    LET counts == { Quotient(ByteLength(ValuesOf(desc[name])), StrideOf(desc[name], name)) :
                      name \in SlotsOf(desc) }
    IN  CHOOSE q \in counts : \A r \in counts : q.n * r.d <= r.n * q.d

\* The drawCount of a geometry built for a descriptor that gives a drawCount
\* or indices: the drawCount given, else the number of indices.
GivenDrawCount(desc, geometry) ==
    /\ "drawCount" \in DOMAIN desc => geometry.drawCount = Quotient(desc.drawCount, 1)
    /\ "drawCount" \notin DOMAIN desc /\ "indices" \in DOMAIN desc =>
          geometry.drawCount = Quotient(desc.indices.length, 1)

\* The drawCount of a geometry built for a descriptor that gives neither a
\* drawCount nor indices: the least vertex count of its slots.
DefaultDrawCount(desc, geometry) ==
    "drawCount" \notin DOMAIN desc /\ "indices" \notin DOMAIN desc /\ SlotsOf(desc) # {} =>
        SameNumber(geometry.drawCount, LeastVertexCount(desc))

\* Both builders return a given drawCount unchanged and, without one, the
\* number of the indices given.
C25_GivenDrawCount ==
    /\ bpc \in {"batch", "built"} /\ ~built.throws =>
          \A i \in DOMAIN descs : GivenDrawCount(descs[i], built.geometries[i])
    /\ bpc = "built" =>
          \A i \in DOMAIN descs :
              ~alone[i].throws => GivenDrawCount(descs[i], alone[i].geometries[1])

\* C25 (default drawCount), as claimed: without drawCount and indices the
\* drawCount is the least, over all slots of the descriptor, of source size
\* divided by stride, also for slots that share a source array and differ in
\* stride; with indices and no drawCount it is the number of indices; a
\* drawCount given is returned unchanged.
C25_DrawCount ==
    /\ C25_GivenDrawCount
    /\ bpc = "built" =>
          \A i \in DOMAIN descs :
              ~alone[i].throws => DefaultDrawCount(descs[i], alone[i].geometries[1])
    /\ bpc \in {"batch", "built"} /\ ~built.throws =>
          \A i \in DOMAIN descs : DefaultDrawCount(descs[i], built.geometries[i])

\* buildGeometry built a descriptor whose two slots share an array of 36
\* bytes with the strides 12 and 36: the drawCount is 3, the least count 1.
C25_SharedSourceReached ==
    /\ bpc = "built" /\ Len(descs) = 1 /\ ~alone[1].throws
    /\ Cardinality(SlotsOf(descs[1])) = 2
    /\ Cardinality(SourcesOf(descs)) = 1
    /\ SameNumber(LeastVertexCount(descs[1]), Quotient(1, 1))
    /\ alone[1].geometries[1].drawCount = Quotient(3, 1)

\* The geometry has a vertex binding for every buffer of its layout.
OnePerBuffer(geometry, h) ==
    Len(geometry.vertexBindings) = Len(h[geometry.layout].buffers)

\* Every vertex binding of the geometry has its byte range inside a vertex
\* buffer of the given size.
InsideBuffer(geometry, size) ==
    \A k \in DOMAIN geometry.vertexBindings :
        /\ geometry.vertexBindings[k].offset >= 0
        /\ geometry.vertexBindings[k].offset + geometry.vertexBindings[k].size <= size

\* Every geometry of both builders has one vertex binding per layout buffer.
C29_OnePerBuffer ==
    /\ bpc \in {"batch", "built"} /\ ~built.throws =>
          \A i \in DOMAIN built.geometries : OnePerBuffer(built.geometries[i], built.h)
    /\ bpc = "built" =>
          \A i \in DOMAIN alone :
              ~alone[i].throws => OnePerBuffer(alone[i].geometries[1], alone[i].h)

\* C29 (vertex bindings stay inside the combined buffer), as claimed: every
\* geometry of both builders has one vertex binding per layout buffer, and
\* the byte range [offset, offset + size) of each lies inside the vertex
\* buffer, also when an attribute has an offset other than 0 or the
\* normalizer split a source array into several bindings.
C29_BindingsInside ==
    /\ C29_OnePerBuffer
    /\ bpc \in {"batch", "built"} /\ ~built.throws =>
          \A i \in DOMAIN built.geometries :
              InsideBuffer(built.geometries[i], built.vertexBuffer.size)
    /\ bpc = "built" =>
          \A i \in DOMAIN alone :
              ~alone[i].throws =>
                  InsideBuffer(alone[i].geometries[1], alone[i].vertexBuffer.size)

\* buildGeometry built a descriptor whose array of 72 bytes the normalizer
\* split into two bindings: the second starts at 36 and has the size 72.
C29_SplitReached ==
    /\ bpc = "built" /\ Len(descs) = 1 /\ ~alone[1].throws
    /\ alone[1].vertexBuffer.size = 72
    /\ Len(alone[1].geometries[1].vertexBindings) = 2
    /\ \E k \in 1 .. 2 :
          /\ alone[1].geometries[1].vertexBindings[k].offset = 36
          /\ alone[1].geometries[1].vertexBindings[k].size = 72

\* The geometries of the batch that have indices.
Indexed == { i \in DOMAIN built.geometries : "indexBinding" \in DOMAIN built.geometries[i] }

\* The width of an index of the format, in bytes.
IndexWidth(format) == IF format = "uint16" THEN 2 ELSE 4

\* firstIndex times the index width is the byte offset the indices of the
\* geometry were copied to, the binding's own offset is 0, and the byte
\* ranges of the indices of two geometries do not overlap.
IndexAddressing(i) ==
    LET binding == built.geometries[i].indexBinding
        copies == built.indexBuffer.copies
    IN  /\ binding.offset = 0
        /\ binding.firstIndex.n >= 0
        /\ binding.firstIndex.n * IndexWidth(binding.format)
             = copies[i].offset * binding.firstIndex.d
        /\ copies[i].size = descs[i].indices.length * IndexWidth(binding.format)
        /\ copies[i].offset + copies[i].size <= built.indexBuffer.size
        /\ \A j \in Indexed :
              j < i => copies[j].offset + copies[j].size <= copies[i].offset

\* The indices of every geometry of a batch are addressed by firstIndex, as a
\* number that may have a fraction.
C30_Addressing ==
    bpc \in {"batch", "built"} /\ ~built.throws => \A i \in Indexed : IndexAddressing(i)

\* C30 (batch index addressing), as claimed: for every geometry with indices
\* of a batch, whatever the mix of 16-bit and 32-bit index arrays, firstIndex
\* is a non-negative integer, firstIndex times the index width is the byte
\* offset its indices were copied to in the shared index buffer, the index
\* byte ranges of the geometries do not overlap and indexBinding.offset is 0.
C30_FirstIndex ==
    bpc \in {"batch", "built"} /\ ~built.throws =>
        \A i \in Indexed :
            /\ IndexAddressing(i)
            /\ built.geometries[i].indexBinding.firstIndex.d = 1

\* A batch of three 16-bit indices followed by six 32-bit indices was built:
\* the second geometry's indices start at byte 6, its firstIndex is 3/2.
C30_MixedWidthsReached ==
    /\ bpc = "built" /\ ~built.throws /\ Indexed = {1, 2}
    /\ built.geometries[1].indexBinding.format = "uint16"
    /\ built.geometries[2].indexBinding.format = "uint32"
    /\ built.indexBuffer.copies[2].offset = 6
    /\ built.geometries[2].indexBinding.firstIndex = Quotient(3, 2)
    /\ built.indexBuffer.size = 30

====
